---------------------------- MODULE Spec2Model ----------------------------
(***************************************************************************)
(* RepoFusion, in specifications over one state:                           *)
(*   Spec       one invocation of a server-side generation flow,           *)
(*              intelligentMergeFlow or recommendReposFlow: provider       *)
(*              resolution -> one generation call -> validation of the     *)
(*              backend's structured output -> return or raise;            *)
(*   PairSpec   two resolutions side by side, through the form's request   *)
(*              builder or directly, for the relational properties;        *)
(*   UiSpec     the page: the merge form, the recommendation section and   *)
(*              the settings they read, with the server actions as calls   *)
(*              that settle later;                                         *)
(*   RaceSpec   the same handlers called while a call is outstanding;      *)
(*   LiveSpec   the form and the section when every call settles;          *)
(*   DialogSpec the settings dialog and its local copy of the settings;    *)
(*   ExportSpec the output panel and the archive it downloads;             *)
(*   FormSpec   the URL fields of the form, their schema and the request.  *)
(*                                                                         *)
(* The repository holds several generations of each flow (the files under  *)
(* src/unnamed are further generations of the same modules).  `impl` names *)
(* the generation that runs.  The two flows of src/unnamed/part_005, whose *)
(* output is {mergedCodebase, summary} and not a file list, are left out.  *)
(*                                                                         *)
(* JavaScript strings are sequences of one-character strings, so that      *)
(* trim, split, startsWith and concatenation are computed, not assumed.    *)
(***************************************************************************)
EXTENDS Integers, Sequences, FiniteSets, TLC

\* ---------------------------------------------------------------- bounds
MaxFiles == 4

MaxName == 3

MaxRecs == 6

MaxRoleName == 1

MaxOutstanding == 2

\* MAX_REPOS of RepoInputForm.tsx, which is 15 there: the most URL fields
\* and the most URLs of a request
MAX_REPOS == 3

\* URLs handed to addRepositoryUrls at once
MaxAdded == 2

\* ------------------------------------------------------ program constants
\* `output.recommendations.length !== 5`
RequiredCount == 5

\* ------------------------------------------------------ JavaScript values
Str(s) == [t |-> "string", s |-> s]

Undefined == [t |-> "undefined", s |-> <<>>]

Null == [t |-> "null", s |-> <<>>]

\* a non-zero number
Num == [t |-> "number", s |-> <<>>]

\* a plain object that is not an array
Obj == [t |-> "object", s |-> <<>>]

\* a value in a position where the schema expects an array
Arr(a) == [t |-> "array", s |-> <<>>, a |-> a]

NonArr(v) == [t |-> v.t, s |-> v.s, a |-> <<>>]

\* ToBoolean(v): `!v`, `v ? x : y`, `v || d`
Truthy(v) ==
  CASE v.t = "string" -> v.s # <<>>
    [] v.t \in {"undefined", "null"} -> FALSE
    [] OTHER -> TRUE

\* typeof v === 'string'
TypeofString(v) == v.t = "string"

\* Array.isArray(v)
IsArray(v) == v.t = "array"

\* v.length; -1 stands for `undefined` (v has no length property)
JsLength(v) ==
  CASE v.t = "array" -> Len(v.a)
    [] v.t = "string" -> Len(v.s)
    [] OTHER -> -1

\* reading a property of v throws a TypeError
ThrowsOnRead(v) == v.t \in {"undefined", "null"}

\* ---------------------------------------------------------- string methods
IsWhiteSpace(c) == c = " "

RECURSIVE TrimStart(_)
TrimStart(s) ==
  IF s = <<>> THEN s
  ELSE IF IsWhiteSpace(Head(s)) THEN TrimStart(Tail(s)) ELSE s

RECURSIVE TrimEnd(_)
TrimEnd(s) ==
  IF s = <<>> THEN s
  ELSE IF IsWhiteSpace(s[Len(s)]) THEN TrimEnd(SubSeq(s, 1, Len(s) - 1)) ELSE s

\* a mutant of Trim: the string is tested untrimmed
TrimMissing(s) == s

\* String.prototype.trim
Trim(s) == TrimEnd(TrimStart(s))

\* String.prototype.startsWith
StartsWith(s, p) == Len(s) >= Len(p) /\ SubSeq(s, 1, Len(p)) = p

\* String.prototype.includes, for a one-character needle
Includes(s, c) == \E i \in 1..Len(s) : s[i] = c

\* s.split(sep)[0], for a one-character separator
RECURSIVE SplitFirst(_, _)
SplitFirst(s, sep) ==
  IF s = <<>> THEN <<>>
  ELSE IF Head(s) = sep THEN <<>>
  ELSE <<Head(s)>> \o SplitFirst(Tail(s), sep)

\* /github\.com\/[^/]+\/[^/]+/.test(s)
GithubCom == <<"g", "i", "t", "h", "u", "b", ".", "c", "o", "m", "/">>

MatchesGithubRepo(s) ==
  \E i \in 1..Len(s) :
    LET r == SubSeq(s, i, Len(s)) IN
      /\ StartsWith(r, GithubCom)
      /\ LET q == SubSeq(r, Len(GithubCom) + 1, Len(r)) IN
           \E j \in 2..(Len(q) - 1) :
             /\ q[j] = "/"
             /\ \A k \in 1..(j - 1) : q[k] # "/"
             /\ q[j + 1] # "/"

\* ------------------------------------------------------- string literals
GoogleaiPrefix == <<"g", "o", "o", "g", "l", "e", "a", "i", "/">>

OllamaPrefix == <<"o", "l", "l", "a", "m", "a", "/">>

OpenrouterPrefix == <<"o", "p", "e", "n", "r", "o", "u", "t", "e", "r", "/">>

HuggingfacePrefix == <<"h", "u", "g", "g", "i", "n", "g", "f", "a", "c", "e", "/">>

HttpScheme == <<"h", "t", "t", "p", ":", "/", "/">>

HttpsScheme == <<"h", "t", "t", "p", "s", ":", "/", "/">>

\* "Summary was not generated by the AI."
SummaryPlaceholder ==
  <<"S", "u", "m", "m", "a", "r", "y", " ", "w", "a", "s", " ", "n", "o", "t", " ",
    "g", "e", "n", "e", "r", "a", "t", "e", "d", " ", "b", "y", " ", "t", "h", "e",
    " ", "A", "I", ".">>

\* ------------------------------------------------------ flow generations
\* intelligentMergeFlow
MergeStrict == "intelligent-merge.ts"

MergeTolerant == "part_003"

MergePermissive == "part_004:261"

MergeUnchecked == "part_004:79"

MergeImpls == {MergeStrict, MergeTolerant, MergePermissive, MergeUnchecked}

\* recommendReposFlow
RecCountOnly == "recommend-repos-flow.ts:88"

RecChecked == "recommend-repos-flow.ts:197"

RecCheckedArray == "part_006"

RecImpls == {RecCountOnly, RecChecked, RecCheckedArray}

\* the generations that resolve a provider and model before the call
ResolvingImpls == {MergeStrict, MergeTolerant, MergePermissive, RecChecked, RecCheckedArray}

\* ------------------------------------------------------ provider resolver
ApiModelTypes == {"gemini", "openrouter", "huggingface", "llamafile", "ollama"}

\* a mutant of the tag stripping: the name is used as given
baseModelNameKeepTag(n) == n

\* input.ollamaMainModelName.split(':')[0]
baseModelNameSplit(n) == SplitFirst(n, ":")

\* a mutant of baseModelNameIncludes: the tag is kept
baseModelNameIncludesKeep(n) == n

\* n.includes(':') ? n.split(':')[0] : n
baseModelNameIncludes(n) == IF Includes(n, ":") THEN SplitFirst(n, ":") ELSE n

baseModelName(impl, n) ==
  IF impl \in {MergePermissive, RecCheckedArray}
  THEN baseModelNameIncludes(n)
  ELSE baseModelNameSplit(n)

\* a mutant of useEphemeral: a key alone is enough
useEphemeralKeyOnly(input) ==
  input.mainApiModel = "gemini" /\ Truthy(input.geminiApiKey)

\* input.mainApiModel === 'gemini' && input.geminiApiKey && input.geminiMainModelName
useEphemeral(input) ==
  input.mainApiModel = "gemini" /\ Truthy(input.geminiApiKey)
    /\ Truthy(input.geminiMainModelName)

\* a mutant of ephemeralFallback: the model id is lost with the instance
ephemeralFallbackNoModel(input) ==
  [currentAi |-> "globalAi", modelToUse |-> Undefined, ephemeral |-> "failed",
   log |-> <<"log:UsingUserGeminiKey", "error:EphemeralInitFailed">>]

\* catch (e) { console.error(...); currentAi = globalAi; modelToUse = `googleai/...` }
ephemeralFallback(input) ==
  [currentAi |-> "globalAi",
   modelToUse |-> Str(GoogleaiPrefix \o input.geminiMainModelName.s),
   ephemeral |-> "failed",
   log |-> <<"log:UsingUserGeminiKey", "error:EphemeralInitFailed">>]

\* a mutant of hostedModelId: the name loses what follows its first ":"
hostedModelIdStripped(prefix, name) == prefix \o SplitFirst(name, ":")

\* `openrouter/${input.openrouterMainModelName}`, `huggingface/${...}`
hostedModelId(prefix, name) == prefix \o name

\* a mutant of llamafileModel: the path is taken for the model id
llamafileModelFromPath(input) == input.llamafilePath

\* the llamafile branch assigns nothing to modelToUse
llamafileModel(input) == Undefined

\* a mutant of noProviderBranch: an empty model name is an error
noProviderBranchThrows(elseWarns) ==
  [currentAi |-> "none", modelToUse |-> Undefined, ephemeral |-> "none",
   log |-> <<"error:NoModelName">>]

\* no branch of the chain is taken: currentAi and modelToUse keep their
\* initial values; the later generations have a final else that warns
noProviderBranch(elseWarns) ==
  [currentAi |-> "globalAi", modelToUse |-> Undefined, ephemeral |-> "none",
   log |-> IF elseWarns THEN <<"warn:NoMainModel">> ELSE <<>>]

\* The if / else-if chain that sets currentAi, modelToUse and logs.
\* ephemeralOk: whether googleAI(...) / genkit(...) returned rather than threw.
\* ephemeral: "built" or "failed" when genkit({plugins: [googleAI({apiKey})]})
\* was called, "none" when it was not.
resolveModel(impl, input, ephemeralOk) ==
  LET elseWarns == impl \in {MergePermissive, RecCheckedArray} IN
  IF useEphemeral(input)
  THEN IF ephemeralOk
       THEN [currentAi |-> "ephemeral",
             modelToUse |-> Str(GoogleaiPrefix \o input.geminiMainModelName.s),
             ephemeral |-> "built",
             log |-> <<"log:UsingUserGeminiKey">>]
       ELSE ephemeralFallback(input)
  ELSE IF input.mainApiModel = "gemini" /\ Truthy(input.geminiMainModelName)
  THEN [currentAi |-> "globalAi",
        modelToUse |-> Str(GoogleaiPrefix \o input.geminiMainModelName.s),
        ephemeral |-> "none",
        log |-> <<>>]
  ELSE IF input.mainApiModel = "ollama" /\ Truthy(input.ollamaMainModelName)
  THEN [currentAi |-> "globalAi",
        modelToUse |-> Str(OllamaPrefix \o baseModelName(impl, input.ollamaMainModelName.s)),
        ephemeral |-> "none",
        log |-> <<"warn:OllamaSelected">>]
  ELSE IF input.mainApiModel = "openrouter" /\ Truthy(input.openrouterMainModelName)
  THEN [currentAi |-> "globalAi",
        modelToUse |-> Str(hostedModelId(OpenrouterPrefix, input.openrouterMainModelName.s)),
        ephemeral |-> "none",
        log |-> <<"warn:OpenRouterSelected">>]
  ELSE IF input.mainApiModel = "huggingface" /\ Truthy(input.huggingfaceMainModelName)
  THEN [currentAi |-> "globalAi",
        modelToUse |-> Str(hostedModelId(HuggingfacePrefix, input.huggingfaceMainModelName.s)),
        ephemeral |-> "none",
        log |-> <<"warn:HuggingFaceSelected">>]
  ELSE IF input.mainApiModel = "llamafile"
  THEN [currentAi |-> "globalAi", modelToUse |-> llamafileModel(input),
        ephemeral |-> "none",
        log |-> <<"warn:LlamafileSelected">>]
  ELSE noProviderBranch(elseWarns)

\* configuredPrompt(input, modelToUse ? { model: modelToUse } : undefined);
\* the generations without a resolver call prompt(input) on the shared instance.
generationCall(impl, input, ephemeralOk) ==
  IF impl \in ResolvingImpls
  THEN LET r == resolveModel(impl, input, ephemeralOk) IN
         [ai |-> r.currentAi,
          model |-> IF Truthy(r.modelToUse) THEN r.modelToUse ELSE Undefined,
          ephemeral |-> r.ephemeral,
          log |-> r.log]
  ELSE [ai |-> "globalAi", model |-> Undefined, ephemeral |-> "none", log |-> <<>>]

\* ------------------------------------------------------- backend outputs
\* The `output` of the generation call: null, or an object whose properties
\* may be absent (undefined) or of any type.
NullOutput ==
  [kind |-> "null", files |-> NonArr(Undefined), summary |-> Undefined,
   recommendations |-> NonArr(Undefined)]

MergeOutput(files, summary) ==
  [kind |-> "object", files |-> files, summary |-> summary,
   recommendations |-> NonArr(Undefined)]

RecOutput(recommendations) ==
  [kind |-> "object", files |-> NonArr(Undefined), summary |-> Undefined,
   recommendations |-> recommendations]

\* no value (nothing received, nothing returned)
Nothing ==
  [kind |-> "none", files |-> NonArr(Undefined), summary |-> Undefined,
   recommendations |-> NonArr(Undefined)]

FileObj(path, content) == [t |-> "object", path |-> path, content |-> content]

NullFile == [t |-> "null", path |-> Undefined, content |-> Undefined]

RepoObj(name, url, reason) ==
  [t |-> "object", name |-> name, url |-> url, reason |-> reason]

NullRepo == [t |-> "null", name |-> Undefined, url |-> Undefined, reason |-> Undefined]

\* thrown errors: the message's kind and the field it names
Err(kind, field) == [kind |-> kind, field |-> field]

NoError == Err("none", "none")

Raise(kind, field, log) ==
  [ok |-> FALSE, value |-> Nothing, error |-> Err(kind, field), log |-> log]

Return(value, log) == [ok |-> TRUE, value |-> value, error |-> NoError, log |-> log]

\* ------------------------------------------- intelligentMergeFlow: checks
\* typeof output.summary !== 'string' || !output.summary.trim()
summaryInvalid(output) ==
  ~TypeofString(output.summary) \/ Trim(output.summary.s) = <<>>

\* a mutant of noFiles: an empty file list is not noticed
noFilesNever(output) == FALSE

\* !output.files || output.files.length === 0
noFiles(output) == ~Truthy(output.files) \/ JsLength(output.files) = 0

\* a mutant of filesNotArray: any value passes for a list
filesNotArrayNever(output) == FALSE

\* !Array.isArray(output.files)
filesNotArray(output) == ~IsArray(output.files)

\* typeof file.path !== 'string' || !file.path.trim()
pathInvalid(file) == ~TypeofString(file.path) \/ Trim(file.path.s) = <<>>

\* typeof file.content !== 'string'
contentInvalid(file) == ~TypeofString(file.content)

\* !file || typeof file !== 'object'
itemInvalid(file) == file.t # "object"

\* intelligent-merge.ts: for (const file of output.files) { throw on the first
\* bad entry }; reading file.path of a null entry throws a TypeError.
RECURSIVE strictFilesError(_)
strictFilesError(files) ==
  IF files = <<>> THEN NoError
  ELSE LET file == Head(files) IN
    IF ThrowsOnRead(file) THEN Err("TypeError", "none")
    ELSE IF pathInvalid(file) THEN Err("InvalidPath", "path")
    ELSE IF contentInvalid(file) THEN Err("InvalidContent", "content")
    ELSE strictFilesError(Tail(files))

\* part_003: the same loop with the item check first
RECURSIVE tolerantFilesError(_)
tolerantFilesError(files) ==
  IF files = <<>> THEN NoError
  ELSE LET file == Head(files) IN
    IF itemInvalid(file) THEN Err("InvalidItem", "none")
    ELSE IF pathInvalid(file) THEN Err("InvalidPath", "path")
    ELSE IF contentInvalid(file) THEN Err("InvalidContent", "content")
    ELSE tolerantFilesError(Tail(files))

\* part_004: output.files.map(...).filter(file => file !== null)
RECURSIVE validatedFiles(_)
validatedFiles(files) ==
  IF files = <<>> THEN <<>>
  ELSE LET file == Head(files) IN
    IF itemInvalid(file) THEN validatedFiles(Tail(files))
    ELSE IF pathInvalid(file) THEN validatedFiles(Tail(files))
    ELSE IF contentInvalid(file)
    THEN <<FileObj(file.path, Str(<<>>))>> \o validatedFiles(Tail(files))
    ELSE <<file>> \o validatedFiles(Tail(files))

RECURSIVE validatedFilesLog(_)
validatedFilesLog(files) ==
  IF files = <<>> THEN <<>>
  ELSE LET file == Head(files) IN
    (IF itemInvalid(file) THEN <<"warn:SkippedItem">>
     ELSE IF pathInvalid(file) THEN <<"warn:SkippedPath">>
     ELSE IF contentInvalid(file) THEN <<"warn:CoercedContent">>
     ELSE <<>>) \o validatedFilesLog(Tail(files))

\* ------------------------------------- intelligentMergeFlow: after await
\* src/src/ai/flows/intelligent-merge.ts
mergeStrict(output) ==
  IF output.kind = "null" THEN Raise("NoOutput", "none", <<>>)
  ELSE IF summaryInvalid(output) THEN Raise("EmptySummary", "summary", <<>>)
  ELSE IF filesNotArray(output) THEN Raise("FilesNotArray", "files", <<>>)
  ELSE LET e == strictFilesError(output.files.a) IN
    IF e # NoError THEN Raise(e.kind, e.field, <<>>) ELSE Return(output, <<>>)

\* src/unnamed/part_003
mergeTolerant(output) ==
  IF output.kind = "null" THEN Raise("NoOutput", "none", <<>>)
  ELSE IF summaryInvalid(output) /\ noFiles(output)
  THEN Raise("EmptySummaryAndNoFiles", "summary", <<>>)
  ELSE LET log == IF summaryInvalid(output) THEN <<"warn:EmptySummary">> ELSE <<>> IN
    IF filesNotArray(output) THEN Raise("FilesNotArray", "files", log)
    ELSE LET e == tolerantFilesError(output.files.a) IN
      IF e # NoError THEN Raise(e.kind, e.field, log) ELSE Return(output, log)

\* src/unnamed/part_004, second flow; it assigns to output.summary and
\* output.files and returns the same object.
mergePermissive(output) ==
  IF output.kind = "null" THEN Raise("NoOutput", "none", <<>>)
  ELSE IF summaryInvalid(output) /\ noFiles(output)
  THEN Raise("EmptySummaryAndNoFiles", "summary", <<>>)
  ELSE
    LET summary == IF ~summaryInvalid(output) THEN output.summary
                   ELSE IF Truthy(output.summary) THEN output.summary
                   ELSE Str(SummaryPlaceholder)
        files == IF filesNotArray(output) THEN <<>> ELSE output.files.a
        log == (IF summaryInvalid(output) THEN <<"warn:EmptySummary">> ELSE <<>>)
               \o (IF filesNotArray(output) THEN <<"warn:FilesNotArray">> ELSE <<>>)
               \o validatedFilesLog(files)
    IN Return(MergeOutput(Arr(validatedFiles(files)), summary), log)

\* src/unnamed/part_004, first flow: return output!
mergeUnchecked(output) == Return(output, <<>>)

intelligentMergeFlow(impl, output) ==
  CASE impl = MergeStrict -> mergeStrict(output)
    [] impl = MergeTolerant -> mergeTolerant(output)
    [] impl = MergePermissive -> mergePermissive(output)
    [] impl = MergeUnchecked -> mergeUnchecked(output)

\* --------------------------------------------- recommendReposFlow: checks
\* a mutant of wrongCount: only too few entries are refused
wrongCountTooFewOnly(output) == JsLength(output.recommendations) < RequiredCount

\* output.recommendations.length !== 5
wrongCount(output) == JsLength(output.recommendations) # RequiredCount

\* typeof repo.name !== 'string' || !repo.name.trim(), and so for url, reason
fieldInvalid(v) == ~TypeofString(v) \/ Trim(v.s) = <<>>

\* !repo.url.startsWith('http://') && !repo.url.startsWith('https://')
urlSchemeInvalid(url) == ~StartsWith(url.s, HttpScheme) /\ ~StartsWith(url.s, HttpsScheme)

\* for (const repo of output.recommendations) { throw on the first bad entry }
RECURSIVE reposError(_)
reposError(repos) ==
  IF repos = <<>> THEN NoError
  ELSE LET repo == Head(repos) IN
    IF repo.t # "object" THEN Err("InvalidItem", "none")
    ELSE IF fieldInvalid(repo.name) THEN Err("InvalidName", "name")
    ELSE IF fieldInvalid(repo.url) THEN Err("InvalidUrl", "url")
    ELSE IF urlSchemeInvalid(repo.url) THEN Err("InvalidUrlFormat", "url")
    ELSE IF fieldInvalid(repo.reason) THEN Err("InvalidReason", "reason")
    ELSE reposError(Tail(repos))

\* the non-fatal diagnostic for a URL that is not github.com/<owner>/<repo>;
\* it is logged for the entries the loop reaches before it throws or ends
RECURSIVE reposLog(_)
reposLog(repos) ==
  IF repos = <<>> THEN <<>>
  ELSE LET repo == Head(repos) IN
    IF repo.t # "object" \/ fieldInvalid(repo.name) \/ fieldInvalid(repo.url)
         \/ urlSchemeInvalid(repo.url)
    THEN <<>>
    ELSE (IF MatchesGithubRepo(repo.url.s) THEN <<>> ELSE <<"warn:NotGithubUrl">>)
         \o (IF fieldInvalid(repo.reason) THEN <<>> ELSE reposLog(Tail(repos)))

\* -------------------------------------- recommendReposFlow: after await
\* recommend-repos-flow.ts, first flow: reading .length of an absent
\* recommendations property throws a TypeError
recCountOnly(output) ==
  IF output.kind = "null" THEN Raise("WrongCount", "none", <<>>)
  ELSE IF ThrowsOnRead(output.recommendations) THEN Raise("TypeError", "none", <<>>)
  ELSE IF wrongCount(output) THEN Raise("WrongCount", "none", <<>>)
  ELSE Return(output, <<>>)

\* recommend-repos-flow.ts, second flow
recChecked(output) ==
  IF output.kind = "null" \/ ~Truthy(output.recommendations)
  THEN Raise("InvalidStructure", "none", <<>>)
  ELSE IF wrongCount(output) THEN Raise("WrongCount", "none", <<>>)
  ELSE LET e == reposError(output.recommendations.a)
           log == reposLog(output.recommendations.a) IN
    IF e # NoError THEN Raise(e.kind, e.field, log) ELSE Return(output, log)

\* src/unnamed/part_006
recCheckedArray(output) ==
  IF output.kind = "null" \/ ~Truthy(output.recommendations)
  THEN Raise("InvalidStructure", "none", <<>>)
  ELSE IF ~IsArray(output.recommendations) \/ wrongCount(output)
  THEN Raise("WrongCount", "none", <<>>)
  ELSE LET e == reposError(output.recommendations.a)
           log == reposLog(output.recommendations.a) IN
    IF e # NoError THEN Raise(e.kind, e.field, log) ELSE Return(output, log)

recommendReposFlow(impl, output) ==
  CASE impl = RecCountOnly -> recCountOnly(output)
    [] impl = RecChecked -> recChecked(output)
    [] impl = RecCheckedArray -> recCheckedArray(output)

\* ------------------------------------------------------------ input sets
NameChars == {"m", ":", "/"}

Names == UNION {[1..k -> NameChars] : k \in 0..MaxName}

NameValues == {Undefined} \cup {Str(s) : s \in Names}

\* the model names of the providers that are not selected
OtherNames == {Undefined, Str(<<"m", ":", "m">>)}

ApiKeys == {Undefined, Str(<<>>), Str(<<"k">>)}

LlamafilePaths == {Undefined, Str(<<"/", "m">>)}

FlowInput(p, n, o, k, path) ==
  [mainApiModel |-> p,
   ollamaMainModelName |-> IF p = "ollama" THEN n ELSE o,
   geminiMainModelName |-> IF p = "gemini" THEN n ELSE o,
   openrouterMainModelName |-> IF p = "openrouter" THEN n ELSE o,
   huggingfaceMainModelName |-> IF p = "huggingface" THEN n ELSE o,
   geminiApiKey |-> k,
   llamafilePath |-> path]

\* RecommendReposInput: mode, and the optional promptDescription
RecommendInput(mode, description, in) ==
  [mode |-> mode,
   promptDescription |-> description,
   mainApiModel |-> in.mainApiModel,
   ollamaMainModelName |-> in.ollamaMainModelName,
   geminiMainModelName |-> in.geminiMainModelName,
   openrouterMainModelName |-> in.openrouterMainModelName,
   huggingfaceMainModelName |-> in.huggingfaceMainModelName,
   geminiApiKey |-> in.geminiApiKey,
   llamafilePath |-> in.llamafilePath]

\* mode and promptDescription of the recommendation requests
RecommendRequests ==
  {<<"general", Undefined>>, <<"promptBased", Undefined>>,
   <<"promptBased", Str(<<" ">>)>>, <<"promptBased", Str(<<"p">>)>>}

NoInput == FlowInput("none", Undefined, Undefined, Undefined, Undefined)

NoCall == [ai |-> "none", model |-> Undefined, ephemeral |-> "none"]

\* file entries a backend may send
FileEntries ==
  {FileObj(Str(<<"a">>), Str(<<>>)),
   FileObj(Str(<<"b">>), Str(<<"x">>)),
   FileObj(Str(<<>>), Str(<<"x">>)),
   FileObj(Str(<<" ">>), Str(<<>>)),
   FileObj(Undefined, Str(<<"x">>)),
   FileObj(Str(<<"a">>), Num),
   NullFile}

FileLists == UNION {[1..k -> FileEntries] : k \in 0..MaxFiles}

FilesValues ==
  {Arr(a) : a \in FileLists}
    \cup {NonArr(Undefined), NonArr(Null), NonArr(Obj), NonArr(Str(<<>>)),
          NonArr(Str(<<"a", "b">>))}

Summaries == {Str(<<>>), Str(<<" ">>), Str(<<"s">>), Undefined, Num}

\* "https://github.com/a/b"
GithubUrl == HttpsScheme \o GithubCom \o <<"a", "/", "b">>

\* "ftp://example.com/x"
FtpUrl ==
  <<"f", "t", "p", ":", "/", "/", "e", "x", "a", "m", "p", "l", "e", ".", "c", "o",
    "m", "/", "x">>

GoodRepos ==
  {RepoObj(Str(<<"n">>), Str(GithubUrl), Str(<<"r">>)),
   RepoObj(Str(<<"n">>), Str(HttpScheme \o <<"h">>), Str(<<"r">>))}

BadRepos ==
  {RepoObj(Str(<<"n">>), Str(FtpUrl), Str(<<"r">>)),
   RepoObj(Str(<<"n">>), Str(<<" ">>), Str(<<"r">>)),
   RepoObj(Str(<<"n">>), Undefined, Str(<<"r">>)),
   RepoObj(Str(<<>>), Str(GithubUrl), Str(<<"r">>)),
   RepoObj(Num, Str(GithubUrl), Str(<<"r">>)),
   RepoObj(Str(<<"n">>), Str(GithubUrl), Str(<<" ">>)),
   RepoObj(Str(<<"n">>), Str(GithubUrl), Undefined),
   NullRepo}

\* n entries, all g except b1 at position i and b2 at position j (0: nowhere)
RepoList(n, g, i, b1, j, b2) ==
  [k \in 1..n |-> IF k = i THEN b1 ELSE IF k = j THEN b2 ELSE g]

\* ------------------------------------------------------------- settings
\* AppSettings (src/src/types/settings.ts).  A provider is one of
\* ApiModelTypes; "undefined" stands for an absent optional property.
RoleNames == UNION {[1..k -> {"r"}] : k \in 0..MaxRoleName}

\* the model name of provider x in a role whose selected provider is sel
PickName(sel, x, n, o) == IF sel = x THEN n ELSE o

AppSettings(p, n, k, path, ucr, rp, rn, ucc, cp, cn) ==
  [mainApiModel |-> p,
   ollamaMainModelName |-> PickName(p, "ollama", n, Str(<<"m", ":", "m">>)),
   geminiMainModelName |-> PickName(p, "gemini", n, Str(<<"m">>)),
   openrouterMainModelName |-> PickName(p, "openrouter", n, Str(<<>>)),
   huggingfaceMainModelName |-> PickName(p, "huggingface", n, Str(<<>>)),
   useCustomReasoningModel |-> ucr,
   reasoningApiModel |-> rp,
   ollamaReasoningModelName |-> PickName(rp, "ollama", rn, Str(<<"m", ":", "m">>)),
   geminiReasoningModelName |-> PickName(rp, "gemini", rn, Str(<<"m">>)),
   openrouterReasoningModelName |-> PickName(rp, "openrouter", rn, Str(<<>>)),
   huggingfaceReasoningModelName |-> PickName(rp, "huggingface", rn, Str(<<>>)),
   useCustomCodingModel |-> ucc,
   codingApiModel |-> cp,
   ollamaCodingModelName |-> PickName(cp, "ollama", cn, Str(<<"m", ":", "m">>)),
   geminiCodingModelName |-> PickName(cp, "gemini", cn, Str(<<"m">>)),
   openrouterCodingModelName |-> PickName(cp, "openrouter", cn, Str(<<>>)),
   huggingfaceCodingModelName |-> PickName(cp, "huggingface", cn, Str(<<>>)),
   llamafilePath |-> path,
   geminiApiKey |-> k,
   openrouterApiKey |-> Str(<<>>),
   huggingfaceApiKey |-> Str(<<>>)]

\* v || undefined
OrUndefined(v) == IF Truthy(v) THEN v ELSE Undefined

\* cond ? v : undefined
OnlyIf(cond, v) == IF cond THEN v ELSE Undefined

\* a mutant of roleProvider: the role's provider is sent whatever the switch
roleProviderAlways(useCustom, provider) == provider

\* appSettings.useCustomReasoningModel ? appSettings.reasoningApiModel : undefined
roleProvider(useCustom, provider) == IF useCustom THEN provider ELSE "undefined"

\* RepoInputForm.onSubmit: the settings part of fullInput
fullInput(appSettings) ==
  LET s == appSettings
      ucr == s.useCustomReasoningModel
      ucc == s.useCustomCodingModel
  IN
  [mainApiModel |-> s.mainApiModel,
   ollamaMainModelName |-> OnlyIf(s.mainApiModel = "ollama", s.ollamaMainModelName),
   geminiMainModelName |-> OnlyIf(s.mainApiModel = "gemini", s.geminiMainModelName),
   openrouterMainModelName |->
     OnlyIf(s.mainApiModel = "openrouter", s.openrouterMainModelName),
   huggingfaceMainModelName |->
     OnlyIf(s.mainApiModel = "huggingface", s.huggingfaceMainModelName),
   useCustomReasoningModel |-> ucr,
   reasoningApiModel |-> roleProvider(ucr, s.reasoningApiModel),
   ollamaReasoningModelName |->
     OnlyIf(ucr /\ s.reasoningApiModel = "ollama", s.ollamaReasoningModelName),
   geminiReasoningModelName |->
     OnlyIf(ucr /\ s.reasoningApiModel = "gemini", s.geminiReasoningModelName),
   openrouterReasoningModelName |->
     OnlyIf(ucr /\ s.reasoningApiModel = "openrouter", s.openrouterReasoningModelName),
   huggingfaceReasoningModelName |->
     OnlyIf(ucr /\ s.reasoningApiModel = "huggingface", s.huggingfaceReasoningModelName),
   useCustomCodingModel |-> ucc,
   codingApiModel |-> roleProvider(ucc, s.codingApiModel),
   ollamaCodingModelName |->
     OnlyIf(ucc /\ s.codingApiModel = "ollama", s.ollamaCodingModelName),
   geminiCodingModelName |->
     OnlyIf(ucc /\ s.codingApiModel = "gemini", s.geminiCodingModelName),
   openrouterCodingModelName |->
     OnlyIf(ucc /\ s.codingApiModel = "openrouter", s.openrouterCodingModelName),
   huggingfaceCodingModelName |->
     OnlyIf(ucc /\ s.codingApiModel = "huggingface", s.huggingfaceCodingModelName),
   llamafilePath |->
     OnlyIf(\/ s.mainApiModel = "llamafile"
            \/ (ucr /\ s.reasoningApiModel = "llamafile")
            \/ (ucc /\ s.codingApiModel = "llamafile"),
            s.llamafilePath),
   geminiApiKey |-> OrUndefined(s.geminiApiKey),
   openrouterApiKey |-> OrUndefined(s.openrouterApiKey),
   huggingfaceApiKey |-> OrUndefined(s.huggingfaceApiKey)]

\* defaultAppSettings: gemini with a model name, no key, no custom roles
\* (the names are short stand-ins for 'gemini-1.5-flash-latest', 'llama3')
defaultAppSettings ==
  AppSettings("gemini", Str(<<"m">>), Str(<<>>), Str(<<>>),
              FALSE, "gemini", Str(<<"m">>), FALSE, "gemini", Str(<<"m">>))

\* ------------------------------------------------------- error messages
\* (err as Error).message, kept as what the handlers test of it: whether
\* it is empty, and which of these texts it includes.  "NOT_FOUND" is
\* tested as written; the others are tested on the lower-cased message.
MessageTexts ==
  {"NOT_FOUND", "model not found", "503", "service unavailable", "overloaded",
   "api key", "authentication"}

Msg(has) == [t |-> "string", empty |-> FALSE, has |-> has]

EmptyMsg == [t |-> "string", empty |-> TRUE, has |-> {}]

\* null, where a message may be
NoMessage == [t |-> "null", empty |-> TRUE, has |-> {}]

\* ToBoolean of a message or null
MsgTruthy(m) == m.t = "string" /\ ~m.empty

\* the messages of the errors the flows throw after validation
ValidationMessage == Msg({})

\* the messages a rejected generation call may carry
BackendMessages ==
  {Msg({}), EmptyMsg, Msg({"NOT_FOUND"}), Msg({"model not found"}), Msg({"503"}),
   Msg({"overloaded"}), Msg({"api key"}), Msg({"NOT_FOUND", "503"})}

\* ----------------------------------------------------------------- state
VARIABLES
  pc,       \* "idle", "awaiting", "generating", "returned", "raised"
  flow,     \* "intelligentMerge", "recommendRepos", "none"
  impl,     \* the generation of the flow that runs
  input,    \* the flow's input, until the call is handed to the backend
  genCall,  \* the generation call in flight: instance, model id, and
            \* what became of the request's own instance
  calls,    \* generation calls issued by this invocation
  log,      \* diagnostics written by the last step
  output,   \* the backend's output as received
  result,   \* the value the flow returned
  error,    \* the error the flow raised
  pair,     \* two resolutions side by side, for the relational properties
  \* RepoFusionPageContent
  appSettings,           \* useState<AppSettings>(defaultAppSettings)
  mergeOutput,           \* useState<IntelligentMergeOutput | null>(null)
  isSettingsDialogOpen,  \* useState(false)
  \* SettingsDialog
  settings,              \* useState<AppSettings>(currentSettings)
  modelFetches,          \* model list fetches suspended at their await
  \* RepoInputForm
  mergeLoading,          \* isLoading
  progress,              \* "0", "rising" (1..89), "held" (90..98), "100"
  mergeCalls,            \* the request of each onSubmit suspended at its await
  mergeRace,             \* history: which merge responses were overtaken
  intervals,             \* progress intervals set and not cleared
  mergeTimers,           \* setTimeout callbacks of `finally` not yet run
  repositoryUrls,        \* the values of the URL fields (useFieldArray)
  \* RepoRecommendationSection
  promptDescription,
  recommendations,
  recLoading,            \* isLoading
  recError,              \* error
  errorTitle,
  isServiceUnavailable,
  currentModeAttempt,
  recCalls,              \* the flowInput of each invocation suspended at its await
  recRace,               \* history: which recommendation responses were overtaken
  recFailed,             \* history: the flowInput of the call whose failure is shown
  \* MergeOutputDisplay
  zip,                   \* the archive handed to saveAs last: entry name -> content
  toast                  \* the title of the toast shown last

\* the variables of one invocation of a flow
flowVars == <<pc, flow, impl, input, genCall, calls, log, output, result, error>>

\* the variables outside the flows
pageVars == <<appSettings, mergeOutput>>

formVars == <<mergeLoading, progress, mergeCalls, intervals, mergeTimers, mergeRace>>

sectionVars ==
  <<promptDescription, recommendations, recLoading, recError, errorTitle,
    isServiceUnavailable, currentModeAttempt, recCalls, recRace>>

\* the settings dialog, and the panels beside the form and the section
dialogVars == <<isSettingsDialogOpen, settings, modelFetches>>

panelVars == <<dialogVars, recFailed, zip, repositoryUrls>>

uiVars == <<pageVars, formVars, sectionVars, panelVars, toast>>

clientVars == <<pair, uiVars>>

vars == <<flowVars, clientVars>>

NoSettings == AppSettings("undefined", Undefined, Undefined, Undefined, FALSE,
                          "undefined", Undefined, FALSE, "undefined", Undefined)

NoSide ==
  [settings |-> NoSettings, request |-> fullInput(NoSettings), impl |-> "none",
   ai |-> "none", model |-> Undefined, ephemeral |-> "none"]

NoPair == [kind |-> "none", a |-> NoSide, b |-> NoSide]

\* History of one action slot, kept beside the requests that are outstanding:
\* overtaken[k] says that a request issued after the k-th outstanding one
\* has had its response applied already; late says that the response
\* applied last came from such a request, and value is then that response.
\* new JSZip(): no entries
NoArchive == <<>>

\* no failure is shown
NoRequest == [mode |-> "none"]

NoRace(none) == [late |-> FALSE, overtaken |-> <<>>, value |-> none]

Init ==
  /\ pc = "idle"
  /\ flow = "none"
  /\ impl = "none"
  /\ input = NoInput
  /\ genCall = NoCall
  /\ calls = 0
  /\ log = <<>>
  /\ output = Nothing
  /\ result = Nothing
  /\ error = NoError
  /\ pair = NoPair
  /\ appSettings = defaultAppSettings
  /\ mergeOutput = NullOutput
  /\ isSettingsDialogOpen = FALSE
  /\ settings = defaultAppSettings
  /\ modelFetches = {}
  /\ mergeLoading = FALSE
  /\ progress = "0"
  /\ mergeCalls = <<>>
  /\ intervals = 0
  /\ mergeTimers = 0
  /\ mergeRace = NoRace(Nothing)
  /\ repositoryUrls = <<Str(<<>>)>>
  /\ promptDescription = Str(<<>>)
  /\ recommendations = NonArr(Null)
  /\ recLoading = FALSE
  /\ recError = NoMessage
  /\ errorTitle = "Error Fetching Recommendations"
  /\ isServiceUnavailable = FALSE
  /\ currentModeAttempt = "general"
  /\ recCalls = <<>>
  /\ recRace = NoRace(NonArr(Undefined))
  /\ recFailed = NoRequest
  /\ zip = NoArchive
  /\ toast = "none"

\* the flow runs up to its await: resolution, then one generation call
Invoke(f, i, in, ephemeralOk) ==
  /\ LET c == generationCall(i, in, ephemeralOk) IN
       /\ genCall' = [ai |-> c.ai, model |-> c.model, ephemeral |-> c.ephemeral]
       /\ log' = c.log
  /\ pc' = "awaiting"
  /\ flow' = f
  /\ impl' = i
  /\ input' = in
  /\ calls' = calls + 1
  /\ UNCHANGED <<output, result, error>>
  /\ UNCHANGED clientVars

InvokeMerge ==
  /\ pc = "idle"
  /\ \E i \in MergeImpls, p \in ApiModelTypes \cup {"undefined"}, n \in NameValues,
        o \in OtherNames, k \in ApiKeys, path \in LlamafilePaths, ok \in BOOLEAN :
       Invoke("intelligentMerge", i, FlowInput(p, n, o, k, path), ok)

InvokeRecommend ==
  /\ pc = "idle"
  /\ \E i \in RecImpls, p \in ApiModelTypes \cup {"undefined"}, n \in NameValues,
        o \in OtherNames, k \in ApiKeys, path \in LlamafilePaths, ok \in BOOLEAN,
        r \in RecommendRequests :
       Invoke("recommendRepos", i,
              RecommendInput(r[1], r[2], FlowInput(p, n, o, k, path)), ok)

\* the backend takes the call; the flow reads nothing but `output` afterwards
BackendReceive ==
  /\ pc = "awaiting"
  /\ pc' = "generating"
  /\ genCall' = NoCall
  /\ input' = NoInput
  /\ log' = <<>>
  /\ UNCHANGED <<flow, impl, calls, output, result, error>>
  /\ UNCHANGED clientVars

\* the awaited call resolves and the rest of the flow runs
Settle(out, r) ==
  /\ output' = out
  /\ pc' = IF r.ok THEN "returned" ELSE "raised"
  /\ result' = r.value
  /\ error' = r.error
  /\ log' = r.log
  /\ UNCHANGED <<flow, impl, input, genCall, calls>>
  /\ UNCHANGED clientVars

MergeRespond ==
  /\ pc = "generating"
  /\ flow = "intelligentMerge"
  /\ \E out \in {NullOutput} \cup {MergeOutput(f, s) : f \in FilesValues, s \in Summaries} :
       Settle(out, intelligentMergeFlow(impl, out))

RecommendRespond ==
  /\ pc = "generating"
  /\ flow = "recommendRepos"
  /\ \/ \E out \in {NullOutput, RecOutput(NonArr(Undefined)), RecOutput(NonArr(Null)),
                      RecOutput(NonArr(Obj))} :
          Settle(out, recommendReposFlow(impl, out))
     \/ \E n \in 0..MaxRecs, g \in GoodRepos :
          \E i \in 0..n, j \in 0..n, b1 \in BadRepos, b2 \in BadRepos :
            LET out == RecOutput(Arr(RepoList(n, g, i, b1, j, b2))) IN
              Settle(out, recommendReposFlow(impl, out))

\* a mutant of BackendFail: the call is issued again after a rejection
BackendFailRetry ==
  /\ pc = "generating"
  /\ calls < 3
  /\ calls' = calls + 1
  /\ UNCHANGED <<pc, flow, impl, input, genCall, log, output, result, error>>
  /\ UNCHANGED clientVars

\* the awaited call rejects; the flow has no try around it
BackendFail ==
  /\ pc = "generating"
  /\ pc' = "raised"
  /\ error' = Err("GenerationFailed", "none")
  /\ UNCHANGED <<flow, impl, input, genCall, calls, log, output, result>>
  /\ UNCHANGED clientVars

\* the caller has the outcome; the invocation is over
Finish ==
  /\ pc \in {"returned", "raised"}
  /\ pc' = "idle"
  /\ flow' = "none"
  /\ impl' = "none"
  /\ calls' = 0
  /\ log' = <<>>
  /\ output' = Nothing
  /\ result' = Nothing
  /\ error' = NoError
  /\ UNCHANGED <<input, genCall>>
  /\ UNCHANGED clientVars

Next ==
  \/ InvokeMerge
  \/ InvokeRecommend
  \/ BackendReceive
  \/ MergeRespond
  \/ RecommendRespond
  \/ BackendFail
  \/ Finish

Spec == Init /\ [][Next]_vars

\* ------------------------------------------- two resolutions side by side
\* The providers and names a reasoning or coding role is given here.
RoleProviders == {"gemini", "ollama", "llamafile"}

\* Settings whose role `w` ("reasoning" or "coding") has the switch uc, the
\* provider rp and the name rn; the other role selects llamafile.
RoleSettings(p, n, k, path, w, uc, rp, rn, ouc) ==
  IF w = "reasoning"
  THEN AppSettings(p, n, k, path, uc, rp, rn, ouc, "llamafile", Str(<<>>))
  ELSE AppSettings(p, n, k, path, ouc, "llamafile", Str(<<>>), uc, rp, rn)

\* the form builds fullInput from the settings and intelligentMerge resolves it
FormSide(s, i, ephemeralOk) ==
  LET req == fullInput(s)
      c == generationCall(i, req, ephemeralOk)
  IN [settings |-> s, request |-> req, impl |-> i,
      ai |-> c.ai, model |-> c.model, ephemeral |-> c.ephemeral]

\* a flow resolves the input it is called with
FlowSide(in, i, ephemeralOk) ==
  LET c == generationCall(i, in, ephemeralOk)
  IN [settings |-> NoSettings, request |-> in, impl |-> i,
      ai |-> c.ai, model |-> c.model, ephemeral |-> c.ephemeral]

\* ${...} of a log message of intelligent-merge.ts: the values the template
\* literal interpolates, or the value passed after the text.  What googleAI
\* or genkit threw is the library's: it is kept as an object.
logArguments(entry, in) ==
  CASE entry = "log:UsingUserGeminiKey" -> <<in.geminiMainModelName>>
    [] entry = "error:EphemeralInitFailed" -> <<Obj>>
    [] entry = "warn:OllamaSelected" ->
         <<in.ollamaMainModelName,
           Str(SplitFirst(in.ollamaMainModelName.s, ":"))>>
    [] OTHER -> <<>>

\* the messages written: each text with the values it interpolates
logMessages(entries, in) ==
  [i \in 1..Len(entries) |->
     [text |-> entries[i], args |-> logArguments(entries[i], in)]]

\* {{#if x}}{{{x}}}{{/if}}
IfPresent(v) == IF Truthy(v) THEN v ELSE Str(<<>>)

\* a mutant of keyMention: the key itself is rendered
keyMentionVerbatim(key) == IfPresent(key)

\* {{#if geminiApiKey}}Provided{{else}}Not provided{{/if}}
keyMention(key) ==
  IF Truthy(key) THEN Str(<<"P", "r", "o", "v", "i", "d", "e", "d">>)
  ELSE Str(<<"N", "o", "t", " ", "p", "r", "o", "v", "i", "d", "e", "d">>)

\* the prompt of defineIntelligentMergePrompt, rendered: the slots of the
\* toolchain part of the template, in order (the slots of the repository
\* list, the target language and the instructions are left out)
renderedPrompt(in) ==
  [mainApiModel |-> in.mainApiModel,
   mainNames |->
     <<IfPresent(in.ollamaMainModelName), IfPresent(in.geminiMainModelName),
       IfPresent(in.openrouterMainModelName),
       IfPresent(in.huggingfaceMainModelName)>>,
   reasoningApiModel |->
     IF in.useCustomReasoningModel THEN in.reasoningApiModel ELSE "main",
   reasoningNames |->
     IF in.useCustomReasoningModel
     THEN <<IfPresent(in.ollamaReasoningModelName),
            IfPresent(in.geminiReasoningModelName),
            IfPresent(in.openrouterReasoningModelName),
            IfPresent(in.huggingfaceReasoningModelName)>>
     ELSE <<>>,
   codingApiModel |->
     IF in.useCustomCodingModel THEN in.codingApiModel ELSE "main",
   codingNames |->
     IF in.useCustomCodingModel
     THEN <<IfPresent(in.ollamaCodingModelName),
            IfPresent(in.geminiCodingModelName),
            IfPresent(in.openrouterCodingModelName),
            IfPresent(in.huggingfaceCodingModelName)>>
     ELSE <<>>,
   llamafilePath |-> IfPresent(in.llamafilePath),
   keys |->
     <<keyMention(in.geminiApiKey), keyMention(in.openrouterApiKey),
       keyMention(in.huggingfaceApiKey)>>]

\* keys a user may enter
UserKeys == {Str(<<"k">>), Str(<<"k", "k">>), Str(<<"m">>)}

\* the form builds fullInput from the settings; intelligentMerge resolves
\* it, logs, and renders the prompt
KeySide(s, i, ephemeralOk) ==
  LET req == fullInput(s)
      c == generationCall(i, req, ephemeralOk)
  IN [settings |-> s, request |-> req, impl |-> i,
      ai |-> c.ai, model |-> c.model, ephemeral |-> c.ephemeral,
      log |-> logMessages(c.log, req), prompt |-> renderedPrompt(req)]

\* two settings states that differ in the Gemini key are submitted through
\* the form
SubmitWithTwoKeys ==
  /\ pair.kind = "none"
  /\ \E p \in ApiModelTypes, n \in {Str(<<>>), Str(<<"m", ":", "m">>)},
        ucr \in BOOLEAN, rp \in RoleProviders, ok \in BOOLEAN :
       \E kA \in UserKeys, kB \in UserKeys :
         /\ kA # kB
         /\ pair' =
              [kind |-> "keys",
               a |-> KeySide(AppSettings(p, n, kA, Str(<<"/", "m">>), ucr, rp,
                                         Str(<<"r">>), FALSE, "gemini", Str(<<"m">>)),
                             MergeStrict, ok),
               b |-> KeySide(AppSettings(p, n, kB, Str(<<"/", "m">>), ucr, rp,
                                         Str(<<"r">>), FALSE, "gemini", Str(<<"m">>)),
                             MergeStrict, ok)]
  /\ UNCHANGED <<flowVars, uiVars>>

\* two settings states that differ in one role's fields are submitted
\* through the form
SubmitTwice ==
  /\ pair.kind = "none"
  /\ \E p \in ApiModelTypes, n \in {Str(<<>>), Str(<<"m", ":", "m">>)},
        k \in {Str(<<>>), Str(<<"k">>)}, path \in {Str(<<"/", "m">>)},
        w \in {"reasoning", "coding"}, ouc \in BOOLEAN,
        i \in {MergeStrict, MergePermissive}, ok \in BOOLEAN :
       \E ucA \in BOOLEAN, ucB \in BOOLEAN, rpA \in RoleProviders, rpB \in RoleProviders,
          rnA \in RoleNames, rnB \in RoleNames :
         pair' = [kind |-> "form",
                  a |-> FormSide(RoleSettings(p, n, k, path, w, ucA, rpA, Str(rnA), ouc), i, ok),
                  b |-> FormSide(RoleSettings(p, n, k, path, w, ucB, rpB, Str(rnB), ouc), i, ok)]
  /\ UNCHANGED <<flowVars, uiVars>>

\* two invocations of the flows with the same provider, names and key
ResolveTwice ==
  /\ pair.kind = "none"
  /\ \E p \in ApiModelTypes \cup {"undefined"}, n \in NameValues, k \in ApiKeys,
        iA \in {MergeStrict, RecCheckedArray}, iB \in ResolvingImpls,
        pathA \in {Undefined}, pathB \in LlamafilePaths,
        okA \in BOOLEAN, okB \in BOOLEAN :
       pair' = [kind |-> "flows",
                a |-> FlowSide(FlowInput(p, n, Undefined, k, pathA), iA, okA),
                b |-> FlowSide(FlowInput(p, n, Undefined, k, pathB), iB, okB)]
  /\ UNCHANGED <<flowVars, uiVars>>

PairDone ==
  /\ pair.kind # "none"
  /\ pair' = NoPair
  /\ UNCHANGED <<flowVars, uiVars>>

NextPair ==
  \/ SubmitTwice
  \/ SubmitWithTwoKeys
  \/ ResolveTwice
  \/ PairDone

PairSpec == Init /\ [][NextPair]_vars

\* ------------------------------------------------------------ the page
\* RepoFusionPageContent, RepoInputForm and RepoRecommendationSection: the
\* handlers as atomic steps between awaits, the server actions as calls
\* that settle with an outcome of intelligentMergeFlow / recommendReposFlow
\* or with the rejection of the generation call.

\* the settings the dialog may hand to onSave
UiSettings ==
  {AppSettings(p, Str(<<"m">>), Str(<<>>), Str(<<>>),
               FALSE, "gemini", Str(<<"m">>), FALSE, "gemini", Str(<<"m">>)) :
     p \in {"gemini", "huggingface", "llamafile"}}

\* handleSaveSettings: setAppSettings(newSettings)
handleSaveSettings(newSettings) == appSettings' = newSettings

\* the dialog's onSave, with some settings
HandleSaveSettings ==
  /\ \E newSettings \in UiSettings :
       /\ newSettings # appSettings
       /\ handleSaveSettings(newSettings)
  /\ UNCHANGED <<flowVars, pair, panelVars, mergeOutput, formVars, sectionVars, toast>>

\* a mutant of busyAfterSubmit: setIsLoading(true) is missing
busyAfterSubmitKept(prev) == prev

\* setIsLoading(true)
busyAfterSubmit(prev) == TRUE

\* s less its k-th element
RemoveAt(s, k) == SubSeq(s, 1, k - 1) \o SubSeq(s, k + 1, Len(s))

\* ---- the history of a slot, as its handlers act
\* a request is issued; the result displayed stays
Issued(race) ==
  [late |-> race.late, overtaken |-> Append(race.overtaken, FALSE), value |-> race.value]

\* a request is issued and the result displayed is cleared
IssuedAfresh(race, none) ==
  [late |-> FALSE, overtaken |-> Append(race.overtaken, FALSE), value |-> none]

\* n requests that a newer one's response has overtaken
RECURSIVE Overtaken(_)
Overtaken(n) == IF n = 0 THEN <<>> ELSE <<TRUE>> \o Overtaken(n - 1)

\* the k-th outstanding request is answered with v: the older ones are
\* overtaken from now on
Answered(race, k, v, none) ==
  [late |-> race.overtaken[k],
   overtaken |-> Overtaken(k - 1) \o SubSeq(race.overtaken, k + 1, Len(race.overtaken)),
   value |-> IF race.overtaken[k] THEN v ELSE none]

\* the k-th outstanding request fails
Failed(race, k) ==
  [late |-> race.late, overtaken |-> RemoveAt(race.overtaken, k), value |-> race.value]

\* a mutant of appliesResponse: a response is dropped when a newer one has
\* been applied
appliesResponseIfCurrent(overtaken) == ~overtaken

\* onMergeSuccess(result) and setRecommendations(result.recommendations) are
\* called with whatever response the await yields: no sequence check
appliesResponse(overtaken) == TRUE

\* data.repositoryUrls.filter(url => url && url.trim() !== '')
RECURSIVE validUrls(_)
validUrls(data) ==
  IF data = <<>> THEN <<>>
  ELSE LET url == Head(data) IN
    (IF Truthy(url) /\ Trim(url.s) # <<>> THEN <<url>> ELSE <<>>) \o validUrls(Tail(data))

\* RepoInputForm.onSubmit(data) up to `await intelligentMerge(fullInput)`.
\* Of fullInput the request keeps repositoryUrls; its model fields are
\* fullInput(appSettings), above.
onSubmit(data) ==
  /\ Len(mergeCalls) + mergeTimers < MaxOutstanding
  /\ IF Len(validUrls(data)) < 1
     THEN /\ toast' = "Validation Error"
          /\ UNCHANGED formVars
     ELSE /\ mergeLoading' = busyAfterSubmit(mergeLoading)
          /\ progress' = "0"
          /\ intervals' = intervals + 1
          /\ toast' = "AI Merge Initiated"
          /\ mergeCalls' = Append(mergeCalls, [repositoryUrls |-> validUrls(data)])
          /\ mergeRace' = Issued(mergeRace)
          /\ UNCHANGED mergeTimers
  /\ UNCHANGED <<flowVars, pair, panelVars, pageVars, sectionVars>>

\* the data of a submission: one field, empty or holding a URL
SubmittedData == {<<Str(<<>>)>>, <<Str(GithubUrl)>>}

\* the submit button, disabled={isLoading}
MergeSubmit ==
  /\ ~mergeLoading
  /\ \E data \in SubmittedData : onSubmit(data)

\* the setInterval callback: prev >= 90 ? 90 : prev + 5..9
ProgressTick ==
  /\ intervals > 0
  /\ progress' \in (CASE progress = "0" -> {"rising"}
                       [] progress = "rising" -> {"rising", "held"}
                       [] OTHER -> {"held"})
  /\ UNCHANGED <<flowVars, pair, panelVars, pageVars, sectionVars, toast>>
  /\ UNCHANGED <<mergeLoading, mergeCalls, intervals, mergeTimers, mergeRace>>

\* outputs a backend may answer a merge call with
UiMergeOutputs ==
  {NullOutput,
   MergeOutput(Arr(<<>>), Str(<<>>)),
   MergeOutput(Arr(<<FileObj(Str(<<"a">>), Str(<<"x">>))>>), Str(<<"s">>)),
   MergeOutput(Arr(<<FileObj(Str(<<"a">>), Str(<<"x">>)),
                     FileObj(Str(<<>>), Str(<<"x">>))>>), Str(<<"s">>)),
   MergeOutput(Arr(<<FileObj(Str(<<"a">>), Str(<<"x">>)),
                     FileObj(Str(<<"a">>), Str(<<>>))>>), Str(<<"s">>)),
   MergeOutput(NonArr(Obj), Str(<<"s">>))}

\* what `await intelligentMerge(fullInput)` may settle with
MergeOutcomes == {intelligentMergeFlow(i, out) : i \in MergeImpls, out \in UiMergeOutputs}

\* the try block after the await, and `finally`
MergeResolves ==
  /\ mergeCalls # <<>>
  /\ \E k \in 1..Len(mergeCalls) : \E r \in MergeOutcomes :
       /\ r.ok
       /\ mergeOutput' = IF appliesResponse(mergeRace.overtaken[k])
                         THEN r.value ELSE mergeOutput
       /\ mergeCalls' = RemoveAt(mergeCalls, k)
       /\ mergeRace' = Answered(mergeRace, k, r.value, Nothing)
  /\ intervals' = intervals - 1
  /\ progress' = "100"
  /\ toast' = "Merge Successful!"
  /\ mergeTimers' = mergeTimers + 1
  /\ UNCHANGED <<flowVars, pair, panelVars, appSettings, mergeLoading, sectionVars>>

\* the catch block, and `finally`: the flow threw, or the generation call
\* was rejected; the handler reads the error's message for the toast only
MergeRejects ==
  /\ mergeCalls # <<>>
  /\ \E k \in 1..Len(mergeCalls) :
       /\ mergeCalls' = RemoveAt(mergeCalls, k)
       /\ mergeRace' = Failed(mergeRace, k)
  /\ intervals' = intervals - 1
  /\ progress' = "0"
  /\ toast' = "Merge Failed"
  /\ mergeTimers' = mergeTimers + 1
  /\ UNCHANGED <<flowVars, pair, panelVars, pageVars, mergeLoading, sectionVars>>

\* a mutant of idleAfterTimer: setIsLoading(false) is missing
busyAfterTimer(prev) == prev

\* setIsLoading(false) in the setTimeout callback
idleAfterTimer(prev) == FALSE

\* the setTimeout callback of `finally`
MergeTimerFires ==
  /\ mergeTimers > 0
  /\ mergeLoading' = idleAfterTimer(mergeLoading)
  /\ progress' = "0"
  /\ mergeTimers' = mergeTimers - 1
  /\ UNCHANGED <<flowVars, pair, panelVars, pageVars, mergeCalls, intervals, mergeRace,
                 sectionVars, toast>>

\* RepoRecommendationSection.handleGetRecommendations: flowInput
flowInput(mode, description, s) ==
  [mode |-> mode,
   promptDescription |-> OnlyIf(mode = "promptBased", description),
   mainApiModel |-> s.mainApiModel,
   ollamaMainModelName |-> OnlyIf(s.mainApiModel = "ollama", s.ollamaMainModelName),
   geminiMainModelName |-> OnlyIf(s.mainApiModel = "gemini", s.geminiMainModelName),
   openrouterMainModelName |->
     OnlyIf(s.mainApiModel = "openrouter", s.openrouterMainModelName),
   huggingfaceMainModelName |->
     OnlyIf(s.mainApiModel = "huggingface", s.huggingfaceMainModelName),
   llamafilePath |-> OnlyIf(s.mainApiModel = "llamafile", s.llamafilePath),
   geminiApiKey |-> s.geminiApiKey,
   openrouterApiKey |-> s.openrouterApiKey,
   huggingfaceApiKey |-> s.huggingfaceApiKey,
   useCustomReasoningModel |-> s.useCustomReasoningModel,
   reasoningApiModel |-> s.reasoningApiModel,
   ollamaReasoningModelName |-> s.ollamaReasoningModelName,
   geminiReasoningModelName |-> s.geminiReasoningModelName,
   openrouterReasoningModelName |-> s.openrouterReasoningModelName,
   huggingfaceReasoningModelName |-> s.huggingfaceReasoningModelName,
   useCustomCodingModel |-> s.useCustomCodingModel,
   codingApiModel |-> s.codingApiModel,
   ollamaCodingModelName |-> s.ollamaCodingModelName,
   geminiCodingModelName |-> s.geminiCodingModelName,
   openrouterCodingModelName |-> s.openrouterCodingModelName,
   huggingfaceCodingModelName |-> s.huggingfaceCodingModelName]

PromptDescriptions == {Str(<<>>), Str(<<" ">>), Str(<<"p">>)}

\* onChange of the description input, disabled={isLoading}
EditPrompt ==
  /\ ~recLoading
  /\ \E v \in PromptDescriptions :
       /\ v # promptDescription
       /\ promptDescription' = v
  /\ UNCHANGED <<flowVars, pair, panelVars, pageVars, formVars, toast>>
  /\ UNCHANGED <<recommendations, recLoading, recError, errorTitle,
                 isServiceUnavailable, currentModeAttempt, recCalls, recRace>>

\* a mutant of clearedRecommendations: the list shown is kept
keptRecommendations(prev) == prev

\* setRecommendations(null)
clearedRecommendations(prev) == NonArr(Null)

\* a mutant of clearedError: the message shown is kept
keptError(prev) == prev

\* setError(null)
clearedError(prev) == NoMessage

\* handleGetRecommendations up to `await recommendRepos(flowInput)`
handleGetRecommendations(mode) ==
  /\ Len(recCalls) < MaxOutstanding
  /\ currentModeAttempt' = mode
  /\ IF mode = "promptBased" /\ Trim(promptDescription.s) = <<>>
     THEN /\ toast' = "Prompt Required"
          /\ UNCHANGED <<promptDescription, recommendations, recLoading, recError,
                         errorTitle, isServiceUnavailable, recCalls, recRace,
                         recFailed>>
     ELSE /\ recLoading' = busyAfterSubmit(recLoading)
          /\ recError' = clearedError(recError)
          /\ isServiceUnavailable' = FALSE
          /\ recommendations' = clearedRecommendations(recommendations)
          /\ errorTitle' = "Error Fetching Recommendations"
          /\ recCalls' = Append(recCalls, flowInput(mode, promptDescription, appSettings))
          /\ recRace' = IssuedAfresh(recRace, NonArr(Undefined))
          /\ recFailed' = NoRequest
          /\ UNCHANGED <<promptDescription, toast>>
  /\ UNCHANGED <<flowVars, pair, dialogVars, zip, repositoryUrls, pageVars, formVars>>

\* the General Recommendations button, disabled={isLoading}
ClickGeneral ==
  /\ ~recLoading
  /\ handleGetRecommendations("general")

\* the Get by Prompt button, disabled={isLoading || !promptDescription.trim()}
ClickByPrompt ==
  /\ ~(recLoading \/ Trim(promptDescription.s) = <<>>)
  /\ handleGetRecommendations("promptBased")

\* isServiceUnavailable || (error && error.toLowerCase().includes("model not found"))
canRetry ==
  isServiceUnavailable \/ (MsgTruthy(recError) /\ "model not found" \in recError.has)

\* the Try Again button, rendered when error && !isLoading, and canRetry
ClickTryAgain ==
  /\ MsgTruthy(recError) /\ ~recLoading
  /\ canRetry
  /\ handleGetRecommendations(currentModeAttempt)

\* "https://github.com/a/b" and "ftp://example.com/x" as recommendations
GithubRepo == RepoObj(Str(<<"n">>), Str(GithubUrl), Str(<<"r">>))

FtpRepo == RepoObj(Str(<<"n">>), Str(FtpUrl), Str(<<"r">>))

\* outputs a backend may answer a recommendation call with
UiRecOutputs ==
  {NullOutput,
   RecOutput(Arr(RepoList(RequiredCount, GithubRepo, 0, GithubRepo, 0, GithubRepo))),
   RecOutput(Arr(RepoList(RequiredCount - 1, GithubRepo, 0, GithubRepo, 0, GithubRepo))),
   RecOutput(Arr(RepoList(RequiredCount, GithubRepo, 2, FtpRepo, 0, GithubRepo)))}

\* what `await recommendRepos(flowInput)` may settle with
RecOutcomes == {recommendReposFlow(i, out) : i \in RecImpls, out \in UiRecOutputs}

\* the try block after the await, and `finally`
RecResolves ==
  /\ recCalls # <<>>
  /\ \E k \in 1..Len(recCalls) : \E r \in RecOutcomes :
       /\ r.ok
       /\ recommendations' = IF appliesResponse(recRace.overtaken[k])
                             THEN r.value.recommendations ELSE recommendations
       /\ recCalls' = RemoveAt(recCalls, k)
       /\ recRace' = Answered(recRace, k, r.value.recommendations, NonArr(Undefined))
  /\ toast' = "Recommendations Ready!"
  /\ recLoading' = FALSE
  /\ UNCHANGED <<flowVars, pair, panelVars, pageVars, formVars>>
  /\ UNCHANGED <<promptDescription, recError, errorTitle, isServiceUnavailable,
                 currentModeAttempt>>

\* errorMessage.includes('NOT_FOUND') || lower-cased includes('model not found')
isNotFound(m) == "NOT_FOUND" \in m.has \/ "model not found" \in m.has

\* includes('503') || 'service unavailable' || 'overloaded'
isUnavailable(m) ==
  "503" \in m.has \/ "service unavailable" \in m.has \/ "overloaded" \in m.has

\* includes('api key') || 'authentication'
isAuthentication(m) == "api key" \in m.has \/ "authentication" \in m.has

\* what specificAdvice adds for the provider: the advice for openrouter and
\* gemini names the "API Key"
adviceTexts(mainApiModel) ==
  IF mainApiModel \in {"openrouter", "gemini"} THEN {"api key"} ELSE {}

\* detailedErrorMessage
detailedErrorMessage(m, in) ==
  IF isNotFound(m) THEN Msg(adviceTexts(in.mainApiModel) \cup m.has)
  ELSE IF isUnavailable(m) THEN Msg({"overloaded"})
  ELSE IF isAuthentication(m) THEN Msg({"api key"} \cup m.has)
  ELSE m

\* currentErrorTitle
currentErrorTitle(m) ==
  IF isNotFound(m) THEN "Model Not Found"
  ELSE IF isUnavailable(m) THEN "AI Service Temporarily Unavailable"
  ELSE IF isAuthentication(m) THEN "Authentication Error"
  ELSE "Recommendation Failed"

\* the catch block, and `finally`: the flow threw (ValidationMessage is
\* among BackendMessages), or the generation call was rejected
RecRejects ==
  /\ recCalls # <<>>
  /\ \E k \in 1..Len(recCalls) : \E m \in BackendMessages :
       /\ isServiceUnavailable' = (~isNotFound(m) /\ isUnavailable(m))
       /\ recError' = detailedErrorMessage(m, recCalls[k])
       /\ errorTitle' = currentErrorTitle(m)
       /\ toast' = currentErrorTitle(m)
       /\ recCalls' = RemoveAt(recCalls, k)
       /\ recRace' = Failed(recRace, k)
       /\ recFailed' = recCalls[k]
  /\ recLoading' = FALSE
  /\ UNCHANGED <<flowVars, pair, dialogVars, zip, repositoryUrls, pageVars, formVars>>
  /\ UNCHANGED <<promptDescription, recommendations, currentModeAttempt>>

UiNext ==
  \/ HandleSaveSettings
  \/ MergeSubmit
  \/ ProgressTick
  \/ MergeResolves
  \/ MergeRejects
  \/ MergeTimerFires
  \/ EditPrompt
  \/ ClickGeneral
  \/ ClickByPrompt
  \/ ClickTryAgain
  \/ RecResolves
  \/ RecRejects

UiSpec == Init /\ [][UiNext]_vars

\* The form and the section, under the settings the page starts with, when
\* every generation call settles.  A pending `await` is
\* resumed once its promise resolves or rejects, and a setTimeout callback
\* runs once its delay has passed: the event loop leaves neither waiting
\* for ever.
LiveNext ==
  \/ MergeSubmit
  \/ ProgressTick
  \/ MergeResolves
  \/ MergeRejects
  \/ MergeTimerFires
  \/ EditPrompt
  \/ ClickGeneral
  \/ ClickByPrompt
  \/ ClickTryAgain
  \/ RecResolves
  \/ RecRejects

LiveSpec ==
  /\ Init /\ [][LiveNext]_vars
  /\ WF_vars(MergeResolves \/ MergeRejects)
  /\ WF_vars(MergeTimerFires)
  /\ WF_vars(RecResolves \/ RecRejects)

\* the submit button of the form, disabled={isLoading}
mergeControlEnabled == ~mergeLoading

\* the button that starts a request of the mode: General Recommendations,
\* disabled={isLoading}; Get by Prompt, disabled={isLoading ||
\* !promptDescription.trim()}
recControlEnabled(mode) ==
  IF mode = "promptBased"
  THEN ~(recLoading \/ Trim(promptDescription.s) = <<>>)
  ELSE ~recLoading

\* --------------------------------------------- the page, handlers unguarded
\* onSubmit and handleGetRecommendations test no flag themselves: only the
\* controls that call them are disabled while isLoading.  Here they are
\* also called while it is true.

\* handleSubmit(onSubmit) runs while isLoading
MergeSubmitAnyway ==
  /\ mergeLoading
  /\ onSubmit(<<Str(GithubUrl)>>)

\* handleGetRecommendations runs while isLoading
GetRecommendationsAnyway ==
  /\ recLoading
  /\ handleGetRecommendations("general")

RaceNext ==
  \/ MergeSubmit
  \/ MergeSubmitAnyway
  \/ MergeResolves
  \/ MergeTimerFires
  \/ ClickGeneral
  \/ GetRecommendationsAnyway
  \/ RecResolves

RaceSpec == Init /\ [][RaceNext]_vars

\* ------------------------------------------------- the settings dialog
\* SettingsDialog keeps a copy of the page's settings in its own state;
\* its inputs, and the model list fetches it starts, write that copy.  A
\* fetch is kept as the provider and category it was started for; which
\* lists, loading flags and fetch errors the dialog holds is left open, so
\* a fetch the code starts under a condition on them may start here
\* whenever the rest of the condition holds.

\* the categories whose provider and model selects are operated
DialogCategories == {"main"}

DialogProviders == {"gemini", "ollama"}

\* model list fetches in flight at once
MaxFetches == 1

DialogKeys == {Str(<<>>), Str(<<"k">>)}

\* the first or preferred name of a fetched model list
FetchedNames == {Str(<<"f">>)}

Capitalized(category) ==
  CASE category = "main" -> "Main"
    [] category = "reasoning" -> "Reasoning"
    [] category = "coding" -> "Coding"

\* getCategorySpecificModelField, for the providers that have one
getCategorySpecificModelField(category, provider) ==
  provider \o Capitalized(category) \o "ModelName"

\* 'mainApiModel' | 'reasoningApiModel' | 'codingApiModel'
apiModelField(category) == category \o "ApiModel"

\* the category's provider is in use: the main one always, a role's when
\* its switch is on
categoryInUse(s, category) ==
  CASE category = "main" -> TRUE
    [] category = "reasoning" -> s.useCustomReasoningModel
    [] category = "coding" -> s.useCustomCodingModel

\* the provider has a model list to fetch: fetchOllamaModels,
\* fetchGeminiModels (with a key), fetchOpenRouterModels
fetchesModels(provider, apiKey) ==
  \/ provider = "ollama"
  \/ provider = "gemini" /\ Truthy(apiKey)
  \/ provider = "openrouter"

ModelFetch(provider, category) == [provider |-> provider, category |-> category]

\* the page's settings button, then the effect on [currentSettings, isOpen]
OpenSettings ==
  /\ ~isSettingsDialogOpen
  /\ isSettingsDialogOpen' = TRUE
  /\ settings' = appSettings
  /\ UNCHANGED <<flowVars, pair, pageVars, formVars, sectionVars, recFailed, zip, repositoryUrls,
               modelFetches, toast>>

\* the effect that fetches the initial model lists while the dialog is open
FetchInitialModels ==
  /\ isSettingsDialogOpen
  /\ Cardinality(modelFetches) < MaxFetches
  /\ \E cat \in {"main", "reasoning", "coding"} :
       LET apiType == settings[apiModelField(cat)] IN
       /\ categoryInUse(settings, cat)
       /\ fetchesModels(apiType, settings.geminiApiKey)
       /\ ModelFetch(apiType, cat) \notin modelFetches
       /\ modelFetches' = modelFetches \cup {ModelFetch(apiType, cat)}
  /\ UNCHANGED <<flowVars, pair, pageVars, formVars, sectionVars, recFailed, zip, repositoryUrls, toast>>
  /\ UNCHANGED <<isSettingsDialogOpen, settings>>

\* handleModelTypeChange
handleModelTypeChange(value, category) ==
  LET Default(provider) ==
        defaultAppSettings[getCategorySpecificModelField(category, provider)]
  IN
  /\ settings' =
       [settings EXCEPT
          ![apiModelField(category)] = value,
          ![getCategorySpecificModelField(category, "ollama")] = Default("ollama"),
          ![getCategorySpecificModelField(category, "gemini")] = Default("gemini"),
          ![getCategorySpecificModelField(category, "openrouter")] =
            Default("openrouter"),
          ![getCategorySpecificModelField(category, "huggingface")] =
            Default("huggingface")]
  /\ modelFetches' =
       IF fetchesModels(value, settings.geminiApiKey)
       THEN modelFetches \cup {ModelFetch(value, category)}
       ELSE modelFetches
  /\ UNCHANGED <<flowVars, pair, pageVars, formVars, sectionVars, recFailed, zip, repositoryUrls, toast>>
  /\ UNCHANGED isSettingsDialogOpen

ChangeModelType ==
  /\ isSettingsDialogOpen
  /\ Cardinality(modelFetches) < MaxFetches
  /\ \E category \in DialogCategories, value \in DialogProviders :
       /\ categoryInUse(settings, category)
       /\ handleModelTypeChange(value, category)

\* handleSelectedModelChange
handleSelectedModelChange(field, value) ==
  /\ settings' = [settings EXCEPT ![field] = value]
  /\ UNCHANGED <<flowVars, pair, pageVars, formVars, sectionVars, recFailed, zip, repositoryUrls, toast>>
  /\ UNCHANGED <<isSettingsDialogOpen, modelFetches>>

\* the model select of a category in use, for its provider
ChangeSelectedModel ==
  /\ isSettingsDialogOpen
  /\ \E category \in DialogCategories, value \in FetchedNames :
       LET provider == settings[apiModelField(category)] IN
       /\ categoryInUse(settings, category)
       /\ provider \in {"gemini", "ollama"}
       /\ handleSelectedModelChange(
            getCategorySpecificModelField(category, provider), value)

\* the onChange of the Gemini key input
ChangeGeminiKey ==
  /\ isSettingsDialogOpen
  /\ \E newApiKey \in DialogKeys :
       LET keyed == [settings EXCEPT !.geminiApiKey = newApiKey]
           Cleared(s, category) ==
             IF settings[apiModelField(category)] = "gemini"
             THEN [s EXCEPT ![getCategorySpecificModelField(category, "gemini")] =
                      defaultAppSettings[
                        getCategorySpecificModelField(category, "gemini")]]
             ELSE s
           started ==
             {ModelFetch("gemini", category) : category \in
                {c \in {"main", "reasoning", "coding"} :
                   /\ categoryInUse(settings, c)
                   /\ settings[apiModelField(c)] = "gemini"
                   /\ ModelFetch("gemini", c) \notin modelFetches}}
       IN
       /\ newApiKey # settings.geminiApiKey
       /\ IF Truthy(newApiKey)
          THEN /\ Cardinality(modelFetches \cup started) <= MaxFetches
               /\ settings' = keyed
               /\ modelFetches' = modelFetches \cup started
          ELSE /\ settings' = Cleared(Cleared(Cleared(keyed, "main"), "reasoning"),
                                      "coding")
               /\ UNCHANGED modelFetches
  /\ UNCHANGED <<flowVars, pair, pageVars, formVars, sectionVars, recFailed, zip, repositoryUrls, toast>>
  /\ UNCHANGED isSettingsDialogOpen

\* the onCheckedChange of the Custom Reasoning Model switch
ToggleCustomReasoning ==
  /\ isSettingsDialogOpen
  /\ Cardinality(modelFetches) < MaxFetches
  /\ \E checked \in BOOLEAN :
       /\ checked # settings.useCustomReasoningModel
       /\ settings' =
            [settings EXCEPT
               !.useCustomReasoningModel = checked,
               !.reasoningApiModel =
                 IF checked THEN @ ELSE defaultAppSettings.reasoningApiModel]
       /\ modelFetches' =
            IF /\ checked
               /\ fetchesModels(settings.reasoningApiModel, settings.geminiApiKey)
               /\ ModelFetch(settings.reasoningApiModel, "reasoning") \notin modelFetches
            THEN modelFetches \cup {ModelFetch(settings.reasoningApiModel, "reasoning")}
            ELSE modelFetches
  /\ UNCHANGED <<flowVars, pair, pageVars, formVars, sectionVars, recFailed, zip, repositoryUrls, toast>>
  /\ UNCHANGED isSettingsDialogOpen

\* a model list fetch settles: with a list that has the selected name, with
\* no list or with an error the copy is kept; with a list that lacks the
\* name, the category's name of that provider becomes one of the list
FetchSettles ==
  /\ modelFetches # {}
  /\ \E f \in modelFetches :
       /\ modelFetches' = modelFetches \ {f}
       /\ \/ UNCHANGED settings
          \/ \E name \in FetchedNames :
               settings' =
                 [settings EXCEPT
                    ![getCategorySpecificModelField(f.category, f.provider)] = name]
  /\ UNCHANGED <<flowVars, pair, pageVars, formVars, sectionVars, recFailed, zip, repositoryUrls, toast>>
  /\ UNCHANGED isSettingsDialogOpen

\* Cancel, or the dialog closed otherwise: onOpenChange(false), then the
\* effect on [currentSettings, isOpen]
CancelSettings ==
  /\ isSettingsDialogOpen
  /\ isSettingsDialogOpen' = FALSE
  /\ settings' = appSettings
  /\ UNCHANGED <<flowVars, pair, pageVars, formVars, sectionVars, recFailed, zip, repositoryUrls,
               modelFetches, toast>>

\* a mutant of savedSettings: Save leaves the Gemini key out
savedSettingsWithoutKey(local) == [local EXCEPT !.geminiApiKey = Str(<<>>)]

\* handleSave: onSave(settings)
savedSettings(local) == local

\* handleSave, then the effect on [currentSettings, isOpen]
handleSave ==
  /\ isSettingsDialogOpen
  /\ handleSaveSettings(savedSettings(settings))
  /\ isSettingsDialogOpen' = FALSE
  /\ toast' = "Settings Saved"
  /\ settings' = appSettings'
  /\ UNCHANGED <<flowVars, pair, mergeOutput, formVars, sectionVars, recFailed, zip, repositoryUrls,
               modelFetches>>

DialogNext ==
  \/ OpenSettings
  \/ FetchInitialModels
  \/ ChangeModelType
  \/ ChangeSelectedModel
  \/ ChangeGeminiKey
  \/ ToggleCustomReasoning
  \/ FetchSettles
  \/ CancelSettings
  \/ handleSave

DialogSpec == Init /\ [][DialogNext]_vars

\* ------------------------------------------------------ the output panel
\* MergeOutputDisplay.handleDownloadZip.  A JSZip object holds its entries
\* by name: file(name, data) adds the entry, or replaces the entry of that
\* name.  Folder entries and the coercion of a name that is no string are
\* left out: a name is kept as the value it is.

\* zip.file(name, data)
file(archive, name, data) ==
  [n \in DOMAIN archive \cup {name} |-> IF n = name THEN data ELSE archive[n]]

\* output.files.forEach(file => { zip.file(file.path, file.content); })
RECURSIVE zipFiles(_, _)
zipFiles(archive, files) ==
  IF files = <<>> THEN archive
  ELSE zipFiles(file(archive, Head(files).path, Head(files).content), Tail(files))

\* output?.files && output.files.length > 0
hasFiles(out) == Truthy(out.files) /\ JsLength(out.files) > 0

\* the Download button, rendered when hasFiles.  An element that is null
\* makes forEach throw before anything is saved or shown.
handleDownloadZip ==
  /\ hasFiles(mergeOutput)
  /\ \A i \in 1..Len(mergeOutput.files.a) : mergeOutput.files.a[i].t = "object"
  /\ \/ /\ zip' = zipFiles(NoArchive, mergeOutput.files.a)
        /\ toast' = "Download Started!"
     \/ /\ toast' = "Download Failed"
        /\ UNCHANGED zip
  /\ UNCHANGED <<flowVars, pair, dialogVars, recFailed, repositoryUrls, pageVars,
               formVars, sectionVars>>

ExportNext ==
  \/ MergeSubmit
  \/ ProgressTick
  \/ MergeResolves
  \/ MergeTimerFires
  \/ handleDownloadZip

ExportSpec == Init /\ [][ExportNext]_vars

\* ------------------------------------------------------- the URL fields
\* The field array of RepoInputForm, its buttons, addRepositoryUrls (called
\* by the page with the URLs of the recommendations shown), and
\* handleSubmit, which runs the resolver of formSchema before onSubmit.

\* "http://h"
OtherUrl == HttpScheme \o <<"h">>

FieldValues == {Str(<<>>), Str(<<" ">>), Str(<<"x">>), Str(GithubUrl), Str(OtherUrl)}

UrlsToAdd ==
  UNION {[1..k -> {Str(GithubUrl), Str(OtherUrl)}] : k \in 1..MaxAdded}

\* z.string().url(): the string parses as a URL, which takes a scheme, a
\* colon and something after it
zodUrl(v) ==
  /\ v.t = "string"
  /\ \E k \in 2..(Len(v.s) - 1) :
       /\ v.s[k] = ":"
       /\ \A j \in 1..(k - 1) : v.s[j] \notin {" ", ":", "/", "."}

\* formSchema.repositoryUrls: each a URL of at least one character, 1 to
\* MAX_REPOS of them
formSchema(values) ==
  /\ \A i \in 1..Len(values) : zodUrl(values[i]) /\ Len(values[i].s) >= 1
  /\ Len(values) >= 1
  /\ Len(values) <= MAX_REPOS

\* a mutant of hasRoom: the bound is inclusive
hasRoomInclusive(count) == count <= MAX_REPOS

\* count < MAX_REPOS, of the Add URL button and of addRepositoryUrls
hasRoom(count) == count < MAX_REPOS

\* !v?.trim()
isBlankValue(v) == ~(Truthy(v) /\ Trim(v.s) # <<>>)

\* getValues("repositoryUrls").map(u => u?.trim()).filter(Boolean)
RECURSIVE existingUrlsInForm(_)
existingUrlsInForm(values) ==
  IF values = <<>> THEN <<>>
  ELSE (IF isBlankValue(Head(values)) THEN <<>> ELSE <<Str(Trim(Head(values).s))>>)
       \o existingUrlsInForm(Tail(values))

\* urlsToAdd.filter(url => url.trim() && !existingUrlsInForm.includes(url.trim()))
RECURSIVE uniqueUrlsToAdd(_, _)
uniqueUrlsToAdd(urlsToAdd, existing) ==
  IF urlsToAdd = <<>> THEN <<>>
  ELSE LET url == Head(urlsToAdd) IN
    (IF /\ Trim(url.s) # <<>>
        /\ \A i \in 1..Len(existing) : existing[i] # Str(Trim(url.s))
     THEN <<url>> ELSE <<>>) \o uniqueUrlsToAdd(Tail(urlsToAdd), existing)

\* fields.forEach((field, index) => ...): the empty slots take unique URLs.
\* readsValue says whether field.value is the field's value or undefined
\* (the field objects of useFieldArray are made by the library).
RECURSIVE fillEmptySlots(_, _, _)
fillEmptySlots(st, index, readsValue) ==
  IF index > Len(st.fields) THEN st
  ELSE LET value == IF readsValue THEN st.fields[index] ELSE Undefined IN
    IF /\ isBlankValue(value)
       /\ Len(st.unique) > 0
       /\ hasRoom(Len(st.existing) + st.addedCount)
    THEN fillEmptySlots(
           [fields |-> st.fields,
            values |-> [st.values EXCEPT ![index] = Head(st.unique)],
            unique |-> Tail(st.unique),
            existing |-> Append(st.existing, Head(st.unique)),
            addedCount |-> st.addedCount + 1],
           index + 1, readsValue)
    ELSE fillEmptySlots(st, index + 1, readsValue)

\* uniqueUrlsToAdd.forEach(url => ...): what is left is appended
RECURSIVE appendRemaining(_, _)
appendRemaining(st, urls) ==
  IF urls = <<>> THEN st
  ELSE IF hasRoom(Len(st.existing) + st.addedCount)
    THEN appendRemaining(
           [fields |-> st.fields,
            values |-> Append(st.values, Head(urls)),
            unique |-> st.unique,
            existing |-> st.existing,
            addedCount |-> st.addedCount + 1],
           Tail(urls))
    ELSE appendRemaining(st, Tail(urls))

\* addRepositoryUrls(urlsToAdd)
addRepositoryUrls(urlsToAdd, readsValue) ==
  LET existing == existingUrlsInForm(repositoryUrls)
      filled ==
        fillEmptySlots(
          [fields |-> repositoryUrls, values |-> repositoryUrls,
           unique |-> uniqueUrlsToAdd(urlsToAdd, existing),
           existing |-> existing, addedCount |-> 0],
          1, readsValue)
      done == appendRemaining(filled, filled.unique)
      currentFields == done.values
  IN
  /\ toast' =
       IF done.addedCount < Len(urlsToAdd) /\ Len(urlsToAdd) > 0
       THEN "Some URLs Not Added"
       ELSE IF done.addedCount > 0 THEN "Repositories Added" ELSE toast
  /\ repositoryUrls' =
       IF Len(repositoryUrls) = 0
          /\ (\/ \A i \in 1..Len(currentFields) : isBlankValue(currentFields[i])
              \/ Len(currentFields) = 0)
       THEN Append(currentFields, Str(<<>>))
       ELSE currentFields
  /\ UNCHANGED <<flowVars, pair, dialogVars, recFailed, zip, pageVars, formVars,
                 sectionVars>>

\* handleAddAllToMergeList -> handleAddRecommendedReposToForm
AddRecommended ==
  \E urlsToAdd \in UrlsToAdd, readsValue \in BOOLEAN :
    addRepositoryUrls(urlsToAdd, readsValue)

\* a URL input's onChange, inside the fieldset disabled={isLoading}
EditUrl ==
  /\ ~mergeLoading
  /\ \E index \in 1..Len(repositoryUrls), v \in FieldValues :
       /\ v # repositoryUrls[index]
       /\ repositoryUrls' = [repositoryUrls EXCEPT ![index] = v]
  /\ UNCHANGED <<flowVars, pair, dialogVars, recFailed, zip, pageVars, formVars,
                 sectionVars, toast>>

\* the Add URL button: fields.length < MAX_REPOS ? append('') : null
AddUrl ==
  /\ ~mergeLoading
  /\ hasRoom(Len(repositoryUrls))
  /\ repositoryUrls' = Append(repositoryUrls, Str(<<>>))
  /\ UNCHANGED <<flowVars, pair, dialogVars, recFailed, zip, pageVars, formVars,
                 sectionVars, toast>>

\* handleRemoveUrl
handleRemoveUrl(index) ==
  /\ repositoryUrls' =
       IF Len(repositoryUrls) > 1 THEN RemoveAt(repositoryUrls, index)
       ELSE [repositoryUrls EXCEPT ![index] = Str(<<>>)]
  /\ UNCHANGED <<flowVars, pair, dialogVars, recFailed, zip, pageVars, formVars,
                 sectionVars, toast>>

RemoveUrl ==
  /\ ~mergeLoading
  /\ \E index \in 1..Len(repositoryUrls) :
       /\ repositoryUrls # <<Str(<<>>)>>
       /\ handleRemoveUrl(index)

\* the submit button: handleSubmit(onSubmit) calls onSubmit with the
\* values when the resolver accepts them, and shows its messages otherwise
SubmitForm ==
  /\ ~mergeLoading
  /\ formSchema(repositoryUrls)
  /\ onSubmit(repositoryUrls)

FormNext ==
  \/ EditUrl
  \/ AddUrl
  \/ RemoveUrl
  \/ AddRecommended
  \/ SubmitForm
  \/ MergeRejects
  \/ MergeTimerFires

FormSpec == Init /\ [][FormNext]_vars

\* ======================================================================
\* Properties
\* ======================================================================
\* The vocabulary of the properties is defined apart from the operators
\* the flows use, so that a property is not true by construction.

\* s is empty or white space only
Blank(s) == \A i \in 1..Len(s) : s[i] = " "

NonBlankString(v) == v.t = "string" /\ \E i \in 1..Len(v.s) : v.s[i] # " "

BlankString(v) == v.t = "string" /\ Blank(v.s)

\* a GeneratedFile: non-blank string path, string content
ValidFile(f) == f.t = "object" /\ NonBlankString(f.path) /\ f.content.t = "string"

\* an entry whose path is the empty string
EmptyPathFile(f) == f.t = "object" /\ f.path = Str(<<>>) /\ f.content.t = "string"

\* The generations of intelligentMergeFlow that check the merge output
\* after the call; the properties about that check (C1 to C6) are about
\* these.  The first flow of part_004 returns the output as it came, with
\* no check at all; C9 covers it.
CheckingMerge == {MergeStrict, MergeTolerant, MergePermissive}

\* the backend has answered and the flow has run to its end
MergeAnswered(impls) ==
  /\ flow = "intelligentMerge"
  /\ impl \in impls
  /\ pc \in {"returned", "raised"}
  /\ output.kind # "none"

RecAnswered ==
  /\ flow = "recommendRepos"
  /\ pc \in {"returned", "raised"}
  /\ output.kind # "none"

Raised == pc = "raised" /\ result = Nothing /\ error # NoError

\* C1: a merge output with a blank summary and a non-empty list of valid
\* file entries is accepted, and the summary returned is a non-blank
\* placeholder.  (Read in the claim's favour: every entry of the list is
\* valid.)  The flows do not do this: intelligent-merge.ts raises on the
\* blank summary, part_003 returns the blank summary unchanged, and
\* part_004 substitutes the placeholder only for the empty string.
C1_BlankSummaryGetsPlaceholder ==
  (/\ MergeAnswered(CheckingMerge)
   /\ output.kind = "object"
   /\ BlankString(output.summary)
   /\ output.files.t = "array"
   /\ Len(output.files.a) >= 1
   /\ \A i \in 1..Len(output.files.a) : ValidFile(output.files.a[i]))
    => (pc = "returned" /\ NonBlankString(result.summary))

\* C2: a merge output with a blank summary and an empty file list makes
\* intelligentMerge raise; nothing is returned.
C2_BlankSummaryNoFilesRaises ==
  (/\ MergeAnswered(CheckingMerge)
   /\ output.kind = "object"
   /\ BlankString(output.summary)
   /\ output.files = Arr(<<>>))
    => Raised

C2_Witness ==
  /\ MergeAnswered({MergePermissive})
  /\ output.summary = Str(<<" ">>)
  /\ output.files = Arr(<<>>)
  /\ error.kind = "EmptySummaryAndNoFiles"

\* C3: a merge output whose `files` is present but not a list makes
\* intelligentMerge raise, whatever the summary.  part_004 coerces the
\* value to an empty list and returns.
C3_FilesNotListRaises ==
  (/\ MergeAnswered(CheckingMerge)
   /\ output.kind = "object"
   /\ output.files.t \notin {"array", "undefined"})
    => Raised

\* C4: whenever intelligentMerge returns a value, its `files` is a list.
C4_ReturnedFilesIsList ==
  (pc = "returned" /\ flow = "intelligentMerge" /\ impl \in CheckingMerge)
    => (result.kind = "object" /\ result.files.t = "array")

C4_Witness ==
  /\ pc = "returned"
  /\ flow = "intelligentMerge"
  /\ impl = MergePermissive
  /\ output.files.t = "object"
  /\ result.files = Arr(<<>>)

\* C5: every file entry of a returned MergeResult has a non-blank string
\* path and a string content.
C5_ReturnedFilesValid ==
  (pc = "returned" /\ flow = "intelligentMerge" /\ impl \in CheckingMerge)
    => \A i \in 1..Len(result.files.a) : ValidFile(result.files.a[i])

C5_Witness ==
  /\ pc = "returned"
  /\ flow = "intelligentMerge"
  /\ impl = MergePermissive
  /\ Len(result.files.a) >= 2
  /\ Len(output.files.a) > Len(result.files.a)
  /\ \E i \in 1..Len(output.files.a) : output.files.a[i].path = Str(<<" ">>)

\* C6: for a merge output with a non-blank summary whose file list mixes
\* valid entries with entries whose path is "", the returned list is the
\* valid entries in their order.  intelligent-merge.ts and part_003 raise
\* on the first such entry and return nothing.
C6_EmptyPathEntriesDropped ==
  (/\ MergeAnswered(CheckingMerge)
   /\ output.kind = "object"
   /\ NonBlankString(output.summary)
   /\ output.files.t = "array"
   /\ \A i \in 1..Len(output.files.a) :
        ValidFile(output.files.a[i]) \/ EmptyPathFile(output.files.a[i])
   /\ \E i \in 1..Len(output.files.a) : ValidFile(output.files.a[i])
   /\ \E i \in 1..Len(output.files.a) : EmptyPathFile(output.files.a[i]))
    => (/\ pc = "returned"
        /\ result.files = Arr(SelectSeq(output.files.a, ValidFile)))

\* C7: a returned RecommendationResult has exactly 5 entries, and an
\* output with any other number of entries is refused, also when each of
\* its entries is valid.
C7_ExactlyFiveRecommendations ==
  /\ (pc = "returned" /\ flow = "recommendRepos")
       => (result.recommendations.t = "array" /\ Len(result.recommendations.a) = 5)
  /\ (RecAnswered /\ output.recommendations.t = "array"
         /\ Len(output.recommendations.a) # 5)
       => Raised

C7_Witness ==
  /\ RecAnswered
  /\ output.recommendations.t = "array"
  /\ Len(output.recommendations.a) = 6
  /\ \A i \in 1..6 : output.recommendations.a[i] \in GoodRepos
  /\ Raised
  /\ error.kind = "WrongCount"

\* a string that is not empty
NonEmptyString(v) == v.t = "string" /\ v.s # <<>>

HasHttpScheme(u) ==
  \/ (Len(u) >= 7 /\ SubSeq(u, 1, 7) = <<"h", "t", "t", "p", ":", "/", "/">>)
  \/ (Len(u) >= 8 /\ SubSeq(u, 1, 8) = <<"h", "t", "t", "p", "s", ":", "/", "/">>)

\* what C8 requires of an entry
RepoAcceptable(r) ==
  /\ NonEmptyString(r.name)
  /\ NonEmptyString(r.url)
  /\ NonEmptyString(r.reason)
  /\ HasHttpScheme(r.url.s)

\* C8: a 5-entry output is returned only if every entry has a non-empty
\* string name, url and reason and an http(s) url; an entry that violates
\* this makes the call raise an error naming the field.  (Entries here are
\* objects.)  The first flow of recommend-repos-flow.ts checks the count
\* only and returns an output with an ftp url.
C8_EntriesChecked ==
  (/\ RecAnswered
   /\ output.recommendations.t = "array"
   /\ Len(output.recommendations.a) = 5
   /\ \A i \in 1..5 : output.recommendations.a[i].t = "object")
    => \/ \A i \in 1..5 : RepoAcceptable(output.recommendations.a[i])
       \/ (Raised /\ error.field \in {"name", "url", "reason"})

\* C9: when the backend returns no output object, both flows raise and
\* return nothing.  The first flow of part_004 returns `output!`, the null.
C9_NoOutputRaises ==
  (/\ flow \in {"intelligentMerge", "recommendRepos"}
   /\ pc \in {"returned", "raised"}
   /\ output.kind = "null")
    => Raised

\* the part of n before its first ":" (n when it has none)
BeforeFirstColon(n) ==
  IF \E i \in 1..Len(n) : n[i] = ":"
  THEN LET k == CHOOSE i \in 1..Len(n) :
                  n[i] = ":" /\ \A j \in 1..(i - 1) : n[j] # ":"
       IN [j \in 1..(k - 1) |-> n[j]]
  ELSE n

\* C10: with mainApiModel = ollama and a non-empty model name n, the model
\* id of the generation call is "ollama/" followed by the part of n before
\* its first ":", so it holds no ":"; in the merge and in the
\* recommendation flow.
C10_OllamaTagStripped ==
  (/\ pc = "awaiting"
   /\ impl \in ResolvingImpls
   /\ input.mainApiModel = "ollama"
   /\ NonEmptyString(input.ollamaMainModelName))
    => (/\ genCall.model.t = "string"
        /\ genCall.model.s
             = <<"o", "l", "l", "a", "m", "a", "/">>
                 \o BeforeFirstColon(input.ollamaMainModelName.s)
        /\ \A i \in 1..Len(genCall.model.s) : genCall.model.s[i] # ":")

C10_Witness ==
  /\ pc = "awaiting"
  /\ flow = "recommendRepos"
  /\ impl = RecChecked
  /\ input.mainApiModel = "ollama"
  /\ input.ollamaMainModelName = Str(<<"m", ":", "m">>)
  /\ genCall.model = Str(<<"o", "l", "l", "a", "m", "a", "/", "m">>)

\* the flow has resolved its provider and issued the generation call
CallIssued == pc = "awaiting" /\ impl \in ResolvingImpls

\* the request selects gemini and carries a key and a model name
GeminiWithKeyAndName ==
  /\ input.mainApiModel = "gemini"
  /\ NonEmptyString(input.geminiApiKey)
  /\ NonEmptyString(input.geminiMainModelName)

\* "googleai/" followed by the request's gemini model name
GoogleaiModelId ==
  Str(<<"g", "o", "o", "g", "l", "e", "a", "i", "/">> \o input.geminiMainModelName.s)

\* C12: an instance of the request's own is constructed if and only if
\* mainApiModel = gemini and geminiApiKey and geminiMainModelName are both
\* non-empty (C13 is about a construction that fails); in every other case
\* the call runs on the shared instance, and for gemini with a model name
\* and no key the model id is "googleai/" followed by that name.
C12_EphemeralIffGeminiKeyAndName ==
  CallIssued =>
    /\ (genCall.ephemeral # "none") <=> GeminiWithKeyAndName
    /\ (genCall.ai = "ephemeral") <=> (genCall.ephemeral = "built")
    /\ (~GeminiWithKeyAndName) => genCall.ai = "globalAi"
    /\ (/\ input.mainApiModel = "gemini"
        /\ ~NonEmptyString(input.geminiApiKey)
        /\ NonEmptyString(input.geminiMainModelName))
         => genCall.model = GoogleaiModelId

C12_Witness ==
  /\ CallIssued
  /\ flow = "intelligentMerge"
  /\ input.mainApiModel = "gemini"
  /\ input.geminiApiKey = Str(<<>>)
  /\ input.geminiMainModelName = Str(<<"m", "/", "m">>)
  /\ genCall.ai = "globalAi"
  /\ genCall.ephemeral = "none"
  /\ genCall.model = Str(<<"g", "o", "o", "g", "l", "e", "a", "i", "/", "m", "/", "m">>)

\* C13: when the construction of the request's own instance fails, the
\* flow does not raise: it issues its one generation call on the shared
\* instance, with the model id "googleai/<model name>" that the call on the
\* request's own instance would have carried.
C13_EphemeralFailureFallsBack ==
  (CallIssued /\ genCall.ephemeral = "failed") =>
    /\ GeminiWithKeyAndName
    /\ genCall.ai = "globalAi"
    /\ genCall.model = GoogleaiModelId
    /\ calls = 1

C13_Witness ==
  /\ CallIssued
  /\ flow = "recommendRepos"
  /\ genCall.ephemeral = "failed"
  /\ input.geminiApiKey = Str(<<"k">>)
  /\ genCall.ai = "globalAi"
  /\ genCall.model = Str(<<"g", "o", "o", "g", "l", "e", "a", "i", "/", "m">>)
  /\ calls = 1

\* C14: with mainApiModel = openrouter (huggingface) and a non-empty model
\* name s, the model id of the call is "openrouter/" ("huggingface/")
\* followed by s unchanged, ":" and "/" included, on the shared instance.
C14_HostedIdsVerbatim ==
  /\ (CallIssued /\ input.mainApiModel = "openrouter"
        /\ NonEmptyString(input.openrouterMainModelName))
       => (/\ genCall.ai = "globalAi"
           /\ genCall.model
                = Str(<<"o", "p", "e", "n", "r", "o", "u", "t", "e", "r", "/">>
                        \o input.openrouterMainModelName.s))
  /\ (CallIssued /\ input.mainApiModel = "huggingface"
        /\ NonEmptyString(input.huggingfaceMainModelName))
       => (/\ genCall.ai = "globalAi"
           /\ genCall.model
                = Str(<<"h", "u", "g", "g", "i", "n", "g", "f", "a", "c", "e", "/">>
                        \o input.huggingfaceMainModelName.s))

C14_Witness ==
  /\ CallIssued
  /\ input.mainApiModel = "openrouter"
  /\ input.openrouterMainModelName = Str(<<"m", "/", ":">>)
  /\ genCall.ai = "globalAi"
  /\ genCall.model
       = Str(<<"o", "p", "e", "n", "r", "o", "u", "t", "e", "r", "/", "m", "/", ":">>)

\* C15: with mainApiModel = llamafile the call carries no model id and
\* runs on the shared instance, whatever llamafilePath is.  (The prompt
\* text, where the path is printed, is not part of the call's instance or
\* model id.)
C15_LlamafileNoModelId ==
  (CallIssued /\ input.mainApiModel = "llamafile")
    => (genCall.ai = "globalAi" /\ genCall.model.t = "undefined")

C15_Witness ==
  /\ CallIssued
  /\ input.mainApiModel = "llamafile"
  /\ input.llamafilePath = Str(<<"/", "m">>)
  /\ genCall.ai = "globalAi"
  /\ genCall.model.t = "undefined"
  /\ "warn:LlamafileSelected" \in {log[i] : i \in 1..Len(log)}

\* C16: for every input the resolution ends with the generation call
\* issued, and a call without a model id runs on the shared instance with
\* a diagnostic logged.  intelligent-merge.ts, part_003 and the second flow
\* of recommend-repos-flow.ts have no final else: with a provider other
\* than llamafile whose model name is empty they log nothing.
C16_ResolutionNeverFails ==
  (impl \in ResolvingImpls /\ pc # "idle") =>
    /\ calls = 1
    /\ CallIssued =>
         /\ genCall.ai \in {"globalAi", "ephemeral"}
         /\ genCall.model.t = "undefined"
              => (genCall.ai = "globalAi" /\ log # <<>>)

\* C18: an invocation issues one generation call, no more: not after the
\* backend rejects the call, not after the construction of the request's
\* own instance fails, not after the output is refused.
C18_OneGenerationCall ==
  /\ calls <= 1
  /\ (pc # "idle") => calls = 1
  /\ (pc = "idle") => calls = 0

C18_Witness ==
  /\ pc = "raised"
  /\ error.kind = "GenerationFailed"
  /\ calls = 1

\* the two settings states agree outside the fields of the roles
AgreeOnMainRole(s1, s2) ==
  /\ s1.mainApiModel = s2.mainApiModel
  /\ s1.ollamaMainModelName = s2.ollamaMainModelName
  /\ s1.geminiMainModelName = s2.geminiMainModelName
  /\ s1.openrouterMainModelName = s2.openrouterMainModelName
  /\ s1.huggingfaceMainModelName = s2.huggingfaceMainModelName
  /\ s1.geminiApiKey = s2.geminiApiKey

NoReasoningFields(req) ==
  /\ req.reasoningApiModel = "undefined"
  /\ req.ollamaReasoningModelName.t = "undefined"
  /\ req.geminiReasoningModelName.t = "undefined"
  /\ req.openrouterReasoningModelName.t = "undefined"
  /\ req.huggingfaceReasoningModelName.t = "undefined"

NoCodingFields(req) ==
  /\ req.codingApiModel = "undefined"
  /\ req.ollamaCodingModelName.t = "undefined"
  /\ req.geminiCodingModelName.t = "undefined"
  /\ req.openrouterCodingModelName.t = "undefined"
  /\ req.huggingfaceCodingModelName.t = "undefined"

SameCall(x, y) == x.ai = y.ai /\ x.model = y.model

\* C11: for two settings states that agree on the main role's fields (the
\* main provider, its model names and the key the main role resolves
\* with) and both have useCustomReasoningModel = false, the merge requests
\* the form builds carry no reasoning provider and no reasoning model
\* name, and intelligentMerge uses the same instance and the same model id
\* for both, whatever the reasoning fields of the settings hold; and so for
\* useCustomCodingModel and the coding fields.
C11_RoleFallback ==
  (pair.kind = "form" /\ AgreeOnMainRole(pair.a.settings, pair.b.settings)) =>
    /\ (~pair.a.settings.useCustomReasoningModel /\ ~pair.b.settings.useCustomReasoningModel)
         => /\ NoReasoningFields(pair.a.request)
            /\ NoReasoningFields(pair.b.request)
            /\ SameCall(pair.a, pair.b)
    /\ (~pair.a.settings.useCustomCodingModel /\ ~pair.b.settings.useCustomCodingModel)
         => /\ NoCodingFields(pair.a.request)
            /\ NoCodingFields(pair.b.request)
            /\ SameCall(pair.a, pair.b)

C11_Witness ==
  /\ pair.kind = "form"
  /\ ~pair.a.settings.useCustomReasoningModel
  /\ ~pair.b.settings.useCustomReasoningModel
  /\ pair.a.settings.reasoningApiModel = "ollama"
  /\ pair.b.settings.reasoningApiModel = "llamafile"
  /\ pair.a.settings.ollamaReasoningModelName = Str(<<"r">>)
  /\ pair.a.settings.mainApiModel = "gemini"
  /\ pair.a.settings.geminiApiKey = Str(<<"k">>)
  /\ pair.a.ai = "ephemeral"
  /\ pair.b.ai = "ephemeral"
  /\ NoReasoningFields(pair.a.request)

RecFailureShown == errorTitle # "Error Fetching Recommendations"

\* C19: when a merge or a recommendation call fails, what is displayed is
\* not taken from the failed response: mergeOutput changes only in the step
\* in which an outstanding merge call succeeds, so a failed call leaves it
\* as it was when the call was submitted; and after a failed recommendation
\* call the list is null and the error message is not null.
C19_FailureLeavesResultArea ==
  /\ [](RecFailureShown => (recommendations.t = "null" /\ recError.t = "string"))
  /\ [][(mergeOutput' # mergeOutput)
          => (Len(mergeCalls') = Len(mergeCalls) - 1 /\ toast' = "Merge Successful!")]_vars
  /\ [][(Len(mergeCalls') = Len(mergeCalls) - 1 /\ toast' = "Merge Failed")
          => mergeOutput' = mergeOutput]_vars

C19_Witness ==
  /\ toast = "Merge Failed"
  /\ mergeCalls = <<>>
  /\ mergeOutput.kind = "object"
  /\ RecFailureShown
  /\ recCalls = <<>>
  /\ recommendations.t = "null"
  /\ recError = EmptyMsg

\* C20: with submissions made through the controls, which are enabled
\* only while the busy flag is false, at most one merge call is outstanding
\* and isLoading of the form is true while one is (it is cleared by the
\* timer that `finally` sets, after the call has settled); the same for
\* recommendation calls and isLoading of the section.
C20_OneOutstandingWhileBusy ==
  /\ Len(mergeCalls) <= 1
  /\ (Len(mergeCalls) = 1) => mergeLoading
  /\ Len(recCalls) <= 1
  /\ (Len(recCalls) = 1) => recLoading

C20_Witness ==
  /\ Len(mergeCalls) = 1
  /\ mergeLoading
  /\ mergeOutput.kind = "object"
  /\ Len(recCalls) = 1
  /\ recLoading
  /\ recCalls[1].mode = "promptBased"

\* C21: with two requests of one slot outstanding, the response of the
\* older request, arriving after the newer one's has been applied, becomes
\* what is displayed: the merge output, or the recommendation list, is the
\* late response's value, not the newer one's.
C21_StaleResponseOverwrites ==
  /\ mergeRace.late => mergeOutput = mergeRace.value
  /\ recRace.late => recommendations = recRace.value

C21_Witness ==
  /\ mergeRace.late
  /\ mergeOutput.files = Arr(<<>>)
  /\ recRace.late
  /\ recommendations.t = "array"
  /\ recCalls = <<>>
  /\ mergeCalls = <<>>

\* C22: the page's settings object is written only by the Save step of the
\* settings dialog, and what that step writes is the dialog's copy; the
\* dialog's inputs, its model list fetches settling, Cancel and opening
\* the dialog leave the page's settings as they were.
C22_SettingsWrittenOnlyBySave ==
  [][appSettings' # appSettings =>
       /\ isSettingsDialogOpen
       /\ ~isSettingsDialogOpen'
       /\ toast' = "Settings Saved"
       /\ appSettings' = settings]_vars

C22_Witness ==
  /\ ~isSettingsDialogOpen
  /\ toast = "Settings Saved"
  /\ appSettings.mainApiModel = "ollama"
  /\ appSettings.ollamaMainModelName = Str(<<"f">>)
  /\ appSettings.useCustomReasoningModel
  /\ appSettings.geminiApiKey = Str(<<"k">>)
  /\ modelFetches # {}

\* C23: after a recommendation request failed with a transient upstream
\* failure (503, overloaded), Try Again is offered; and activating it
\* issues the request that failed once more: the same mode, description
\* and settings, whatever the description field and the settings have
\* become since.
C23_TryAgainReissuesFailedRequest ==
  [][/\ (isServiceUnavailable /\ ~recLoading) => MsgTruthy(recError)
     /\ (isServiceUnavailable /\ ClickTryAgain) =>
          recCalls' = Append(recCalls, recFailed)]_vars

C25_OneArchiveEntryPerFile ==
  [][(/\ handleDownloadZip
      /\ toast' = "Download Started!"
      /\ \A i \in 1..Len(mergeOutput.files.a) : ValidFile(mergeOutput.files.a[i]))
       => LET files == mergeOutput.files.a IN
          /\ Cardinality(DOMAIN zip') = Len(files)
          /\ \A i \in 1..Len(files) :
               /\ files[i].path \in DOMAIN zip'
               /\ zip'[files[i].path] = files[i].content]_vars

\* C26: whatever Add URL, Remove URL and addRepositoryUrls have made of
\* the URL fields, there are between 1 and MAX_REPOS of them, and every
\* merge request issued carries between 1 and MAX_REPOS URLs, none of
\* them blank; a submission of fields that are all blank issues none.
C26_RequestCarriesUsableUrls ==
  /\ [](/\ Len(repositoryUrls) \in 1..MAX_REPOS
        /\ \A k \in 1..Len(mergeCalls) :
             LET urls == mergeCalls[k].repositoryUrls IN
             /\ Len(urls) \in 1..MAX_REPOS
             /\ \A i \in 1..Len(urls) : NonBlankString(urls[i]))
  /\ [][(\A i \in 1..Len(repositoryUrls) : ~NonBlankString(repositoryUrls[i]))
          => Len(mergeCalls') <= Len(mergeCalls)]_vars

C26_Witness ==
  /\ Len(mergeCalls) = 1
  /\ Len(mergeCalls[1].repositoryUrls) = MAX_REPOS
  /\ mergeCalls[1].repositoryUrls[1] = Str(OtherUrl)
  /\ mergeCalls[1].repositoryUrls[MAX_REPOS] = Str(GithubUrl)
  /\ toast = "Some URLs Not Added"
  /\ Len(repositoryUrls) = MAX_REPOS

\* s has sub as a substring
Contains(s, sub) ==
  \E i \in 0..(Len(s) - Len(sub)) : SubSeq(s, i + 1, i + Len(sub)) = sub

\* the settings of the two sides differ in the Gemini key at most
SameButKey(a, b) == [a EXCEPT !.geminiApiKey = b.geminiApiKey] = b

\* C27: two merge requests whose settings differ only in the value of a
\* non-empty Gemini key write the same log messages and send the same
\* prompt, and the prompt's line for that key says "Provided": neither
\* key's value is what that line renders.
C27_KeyValueNotInLogOrPrompt ==
  (/\ pair.kind = "keys"
   /\ SameButKey(pair.a.settings, pair.b.settings)
   /\ pair.a.settings.geminiApiKey # pair.b.settings.geminiApiKey)
    => /\ pair.a.log = pair.b.log
       /\ pair.a.prompt = pair.b.prompt
       /\ pair.a.prompt.keys[1] = Str(<<"P", "r", "o", "v", "i", "d", "e", "d">>)
       /\ ~Contains(pair.a.prompt.keys[1].s, pair.a.settings.geminiApiKey.s)

C27_Witness ==
  /\ pair.kind = "keys"
  /\ pair.a.settings.geminiApiKey = Str(<<"k">>)
  /\ pair.b.settings.geminiApiKey = Str(<<"m">>)
  /\ pair.a.settings.mainApiModel = "gemini"
  /\ pair.a.ephemeral = "failed"
  /\ Len(pair.a.log) = 2
  /\ pair.a.log[1].args = <<Str(<<"m", ":", "m">>)>>

\* C28: every result a checking generation of intelligentMerge returns is
\* non-degenerate: its file list is non-empty, or its summary is non-blank
\* and is the one the backend sent.  No result has an empty file list
\* with a blank or placeholder summary.
C28_ReturnedResultNonDegenerate ==
  (MergeAnswered(CheckingMerge) /\ pc = "returned")
    => \/ result.files.t = "array" /\ Len(result.files.a) >= 1
       \/ NonBlankString(result.summary) /\ result.summary = output.summary

\* C29: in the recommendation section, with requests started only while
\* isLoading is false, at most one of these holds in every state: isLoading
\* is true, error is not null, recommendations is not null.
C29_AtMostOneOfBusyErrorList ==
  /\ ~(recLoading /\ recError # NoMessage)
  /\ ~(recLoading /\ recommendations # NonArr(Null))
  /\ ~(recError # NoMessage /\ recommendations # NonArr(Null))

\* a prompt-based request was started and failed: the message is shown,
\* nothing is outstanding and no list is shown
C29_Witness ==
  /\ recError # NoMessage
  /\ ~recLoading
  /\ recommendations = NonArr(Null)
  /\ recFailed # NoRequest
  /\ recFailed.mode = "promptBased"

\* C30: when every generation call settles, each merge submission and each
\* recommendation request is followed by a state where isLoading is false
\* again and the control that started it is enabled, whether the call
\* resolved or rejected.
C30_BusyFlagReturnsToFalse ==
  /\ mergeLoading ~> (~mergeLoading /\ mergeControlEnabled)
  /\ recLoading ~> (~recLoading /\ recControlEnabled(currentModeAttempt))

\* a merge call was rejected and the timer of `finally` has run: the form
\* is idle again and its button enabled, the failure toast still shown
C30_Witness ==
  /\ toast = "Merge Failed"
  /\ mergeCalls = <<>>
  /\ mergeTimers = 0
  /\ ~mergeLoading
  /\ mergeControlEnabled

==========================================================================
